---- MODULE Spec2Model ----
(***************************************************************************)
(* Model of booking::BookingService (src/src/BookingService.cpp):          *)
(* the catalog of movies, theaters and shows behind one shared_mutex, the  *)
(* per-show seat inventory behind one mutex per show, and the seat codec.  *)
(*                                                                         *)
(* Strings are sequences of character codes, so that the codec and the     *)
(* case folding are computed on the characters as the code computes them.  *)
(* Every public operation is split at its lock acquisitions, its atomic    *)
(* counter increment and the iterations of its loops; the steps of one     *)
(* call are taken by one thread, other threads interleave between them.    *)
(***************************************************************************)
EXTENDS Integers, Sequences, FiniteSets, TLC

\* ---------------------------------------------------------------- bounds
NThreads    == 4      \* threads of the service
NWorkers    == 2      \* of them, those that call it concurrently in general runs
SetupCalls  == 2      \* calls the main thread makes alone before they start
MaxCalls    == 2      \* catalog calls made concurrently after that
MaxBookings == 3      \* seat calls made concurrently after the fixture
MaxLabelLen == 4      \* longest label string given to the codec alone
MaxQueries  == 2      \* calls made concurrently after the fixture, queries among them

Threads  == 1..NThreads
Workers  == 1..NWorkers
NoThread == 0

\* ------------------------------------------------------ program constants
SEAT_ROW    == 65
TOTAL_SEATS == 20
ChZero      == 48
ChNine      == 57

SeatIdx == 0..(TOTAL_SEATS - 1)

\* ----------------------------------------------------------------- codec
\* std::tolower in the "C" locale on an unsigned char.
\* (tolowerMut: a fold that leaves every character as it is)
tolowerMut(c) == c
tolower(c) == IF c >= 65 /\ c <= 90 THEN c + 32 ELSE c

toLower(s) == [i \in 1..Len(s) |-> tolower(s[i])]

\* The digit loop of seatIndexFromLabel from position i on, with the
\* accumulator num: bad = the loop returned -1 on a non-digit, otherwise
\* num is the accumulator when the loop ended or broke.
\* (ParseDigitsMut: the break of line 56 left out, the loop reads on)
RECURSIVE ParseDigitsMut(_, _, _)
ParseDigitsMut(label, i, num) ==
    IF i > Len(label) THEN [bad |-> FALSE, num |-> num]
    ELSE LET c == label[i] IN
         IF c < ChZero \/ c > ChNine THEN [bad |-> TRUE, num |-> num]
         ELSE ParseDigitsMut(label, i + 1, num * 10 + (c - ChZero))
RECURSIVE ParseDigits(_, _, _)
ParseDigits(label, i, num) ==
    IF i > Len(label) THEN [bad |-> FALSE, num |-> num]
    ELSE LET c == label[i] IN
         IF c < ChZero \/ c > ChNine THEN [bad |-> TRUE, num |-> num]
         ELSE LET num2 == num * 10 + (c - ChZero) IN
              IF num2 > TOTAL_SEATS THEN [bad |-> FALSE, num |-> num2]
              ELSE ParseDigits(label, i + 1, num2)

\* (seatIndexFromLabelMut: the row letter is not compared)
seatIndexFromLabelMut(label) ==
    IF Len(label) < 2 THEN -1
    ELSE LET r == ParseDigits(label, 2, 0) IN
         IF r.bad THEN -1
         ELSE IF r.num < 1 \/ r.num > TOTAL_SEATS THEN -1
         ELSE r.num - 1
seatIndexFromLabel(label) ==
    IF Len(label) < 2 \/ label[1] # SEAT_ROW THEN -1
    ELSE LET r == ParseDigits(label, 2, 0) IN
         IF r.bad THEN -1
         ELSE IF r.num < 1 \/ r.num > TOTAL_SEATS THEN -1
         ELSE r.num - 1

\* The value of num when seatIndexFromLabel leaves its loop (lines 51-57),
\* the largest it has held: the loop never lowers it.
Accumulated(label) ==
    IF Len(label) < 2 \/ label[1] # SEAT_ROW THEN 0
    ELSE ParseDigits(label, 2, 0).num

\* operator<< of a non-negative int: its decimal digits, no padding.
RECURSIVE Decimal(_)
Decimal(v) ==
    IF v < 10 THEN <<ChZero + v>>
    ELSE Decimal(v \div 10) \o <<ChZero + (v % 10)>>

\* (seatLabelFromIndexMut: the number written is zero-based)
seatLabelFromIndexMut(idx) == <<SEAT_ROW>> \o Decimal(idx)
seatLabelFromIndex(idx) == <<SEAT_ROW>> \o Decimal(idx + 1)

\* ---------------------------------------------------------------- inputs
\* "Ab", "aB" (equal up to letter case)
MovieTitles  == { <<65, 98>>, <<97, 66>> }
\* "Pv", "pV"
TheaterNames == { <<80, 118>>, <<112, 86>> }
ArgIds       == {1, 2}

L(n)  == seatLabelFromIndex(n - 1)
\* "A03": seat 3 written with a leading zero;  "Z9": wrong row
LabelA03 == <<SEAT_ROW, ChZero, ChZero + 3>>
LabelZ9  == <<90, ChNine>>
Requests ==
    { <<L(1)>>, <<L(1), L(2)>>, <<L(2), L(3)>>,
      <<L(3), LabelA03>>, <<L(20), LabelZ9>>, << >> }
\* bookSeats arguments: every request on show 1, one on show 2
Bookings == ({1} \X Requests) \cup { <<2, <<L(1)>> >> }

\* ----------------------------------------------------------------- state
VARIABLES
    movies,            \* movies_          : id -> [id, title]
    theaters,          \* theaters_        : id -> [id, name]
    shows,             \* shows_           : id -> Show (seats, mtx, availableCount)
    movieNameToId,     \* movieNameToId_   : lower-case title -> id
    theaterNameToId,   \* theaterNameToId_ : lower-case name  -> id
    showLookup,        \* showLookup_      : <<movieId, theaterId>> -> show id
    activeMovies,      \* activeMovies_
    movieToTheaters,   \* movieToTheaters_ : movieId -> set of theaterIds
    movieCounter,      \* movieCounter_
    theaterCounter,    \* theaterCounter_
    showCounter,       \* showCounter_
    mtx,               \* mtx_ : the catalog shared_mutex
    pc,                \* where each thread is inside its current call
    frame,             \* the arguments and locals of each thread's call
    calls,             \* number of public calls started so far
    sold,              \* history: per show and seat, the successful calls that took it
    whole,             \* history: per show, its seat vectors between whole bookings
    issued             \* history: per creating operation and id, the calls that returned it

vars == << movies, theaters, shows, movieNameToId, theaterNameToId, showLookup,
           activeMovies, movieToTheaters, movieCounter, theaterCounter,
           showCounter, mtx, pc, frame, calls, sold, whole, issued >>

catalogVars == << movies, theaters, movieNameToId, theaterNameToId, showLookup,
                  activeMovies, movieToTheaters, movieCounter, theaterCounter,
                  showCounter >>

\* Two strings differ at most in the case of their letters.
SameUpToCase(a, b) ==
    /\ Len(a) = Len(b)
    /\ \A i \in 1..Len(a) :
          \/ a[i] = b[i]
          \/ a[i] \in 65..90  /\ b[i] = a[i] + 32
          \/ a[i] \in 97..122 /\ b[i] = a[i] - 32

EmptyMap == [x \in {} |-> 0]
Put(f, k, v) == [x \in (DOMAIN f) \cup {k} |-> IF x = k THEN v ELSE f[x]]

CreateOps == { "addMovie", "addTheater", "createShow" }
\* One more call of op has returned id.
Issue(op, id) ==
    [issued EXCEPT ![op] = Put(@, id, IF id \in DOMAIN @ THEN @[id] + 1 ELSE 1)]

\* The arguments, the locals and the result of a call (ret: the int or long
\* long returned, with diag the id printed on std::cerr; ok: the bool
\* returned; available: the vector returned; threw: an exception left the
\* call).  The last line is history kept for the properties: known (the
\* entity asked for was in the catalog when the call started), entry and
\* knownIds being the ids of those entities), entry and
\* exit (what the call found when it got its lock and what it left when it
\* released it), soldBefore (the seats sold by calls that had returned when
\* the seats were read), raced (a booking was half applied when the call
\* resolved its show).  For the queries: text (the std::string returned),
\* title (the title a caller got from getMovieTitle), info (the ShowInfo
\* vector, or the lines written to std::cout), todo and cur (the elements a
\* range-for has still to visit, and the one it is at), retpc (where the
\* thread goes on when getMovieTitle or getTheaterName returns: into the
\* operation that called it, or back to the caller of the service).
\* Frame0 is the frame of a thread that is in no call.
Frame0 ==
    [ op |-> "none", name |-> << >>, movieId |-> 0, theaterId |-> 0,
      showId |-> 0, seatLabels |-> << >>,
      lower |-> << >>, id |-> 0, show |-> 0,
      seen |-> {}, tmpIndices |-> << >>, n |-> 0, k |-> 1, i |-> 0,
      ret |-> 0, diag |-> 0, ok |-> FALSE, threw |-> FALSE, available |-> << >>,
      known |-> FALSE, knownIds |-> {}, entry |-> << >>, exit |-> << >>, soldBefore |-> {},
      raced |-> FALSE,
      text |-> << >>, title |-> << >>, info |-> << >>, todo |-> {}, cur |-> 0,
      retpc |-> "done" ]

Init ==
    /\ movies = EmptyMap /\ theaters = EmptyMap /\ shows = EmptyMap
    /\ movieNameToId = EmptyMap /\ theaterNameToId = EmptyMap
    /\ showLookup = EmptyMap
    /\ activeMovies = {} /\ movieToTheaters = EmptyMap
    /\ movieCounter = 0 /\ theaterCounter = 0 /\ showCounter = 0
    /\ mtx = [writer |-> NoThread, readers |-> [t \in Threads |-> 0]]
    /\ pc = [t \in Threads |-> "idle"]
    /\ frame = [t \in Threads |-> Frame0]
    /\ calls = 0
    /\ sold = EmptyMap
    /\ whole = EmptyMap
    /\ issued = [op \in CreateOps |-> EmptyMap]

\* ------------------------------------------------------- the catalog lock
\* std::shared_lock(mtx_): blocks while a writer holds the lock.
CanLockShared(t) == mtx.writer = NoThread
\* std::unique_lock(mtx_): blocks while anyone holds the lock.
\* (CanLockUniqueMut: readers do not keep a writer out)
CanLockUniqueMut(t) == mtx.writer = NoThread
CanLockUnique(t) == mtx.writer = NoThread /\ \A u \in Threads : mtx.readers[u] = 0

LockShared(t)   == [mtx EXCEPT !.readers[t] = @ + 1]
UnlockShared(t) == [mtx EXCEPT !.readers[t] = @ - 1]
LockUnique(t)   == [mtx EXCEPT !.writer = t]
UnlockUnique(t) == [mtx EXCEPT !.writer = NoThread]

\* A thread starts a public call only when it is in no call.
CanCall(t) == pc[t] = "idle"

\* The call has returned to its caller; the frame keeps what it returned
\* until the caller drops it.
Return(t) ==
    /\ pc[t] = "done"
    /\ pc' = [pc EXCEPT ![t] = "idle"]
    /\ frame' = [frame EXCEPT ![t] = Frame0]
    /\ UNCHANGED << catalogVars, shows, mtx, calls, sold, whole, issued >>

\* --------------------------------------------------------------- addMovie
AddMovieCall(t, title) ==
    /\ CanCall(t)
    /\ calls' = calls + 1
    /\ pc' = [pc EXCEPT ![t] = "am_shared"]
    /\ frame' = [frame EXCEPT ![t] =
                   [Frame0 EXCEPT !.op = "addMovie", !.name = title,
                                  !.lower = toLower(title),
                                  !.known = \E m \in DOMAIN movies :
                                              SameUpToCase(movies[m].title, title),
                                  !.knownIds = {m \in DOMAIN movies :
                                              SameUpToCase(movies[m].title, title)}]]
    /\ UNCHANGED << catalogVars, shows, mtx, sold, whole, issued >>

AddMovieLockShared(t) ==
    /\ pc[t] = "am_shared"
    /\ CanLockShared(t)
    /\ mtx' = LockShared(t)
    /\ pc' = [pc EXCEPT ![t] = "am_check"]
    /\ UNCHANGED << catalogVars, shows, frame, calls, sold, whole, issued >>

\* lines 100-105: the duplicate check under the shared lock
\* (AddMovieCheckMut: the id is drawn before the check, also for a duplicate)
AddMovieCheckMut(t) ==
    /\ pc[t] = "am_check"
    /\ mtx' = UnlockShared(t)
    /\ IF frame[t].lower \in DOMAIN movieNameToId
       THEN /\ pc' = [pc EXCEPT ![t] = "done"]
            /\ frame' = [frame EXCEPT ![t].ret = -1,
                                      ![t].diag = movieNameToId[frame[t].lower]]
            /\ movieCounter' = movieCounter + 1
       ELSE /\ pc' = [pc EXCEPT ![t] = "am_incr"]
            /\ frame' = frame
            /\ movieCounter' = movieCounter
    /\ UNCHANGED << movies, theaters, movieNameToId, theaterNameToId, showLookup,
                    activeMovies, movieToTheaters, theaterCounter, showCounter,
                    shows, calls, sold, whole, issued >>
AddMovieCheck(t) ==
    /\ pc[t] = "am_check"
    /\ mtx' = UnlockShared(t)
    /\ IF frame[t].lower \in DOMAIN movieNameToId
       THEN /\ pc' = [pc EXCEPT ![t] = "done"]
            /\ frame' = [frame EXCEPT ![t].ret = -1,
                                      ![t].diag = movieNameToId[frame[t].lower]]
       ELSE /\ pc' = [pc EXCEPT ![t] = "am_incr"]
            /\ frame' = frame
    /\ UNCHANGED << catalogVars, shows, calls, sold, whole, issued >>

\* line 107: const int id = ++movieCounter_
\* (AddMovieIncrMut: the next id is read and the counter is not advanced)
AddMovieIncrMut(t) ==
    /\ pc[t] = "am_incr"
    /\ frame' = [frame EXCEPT ![t].id = movieCounter + 1]
    /\ pc' = [pc EXCEPT ![t] = "am_unique"]
    /\ UNCHANGED << catalogVars, shows, mtx, calls, sold, whole, issued >>
AddMovieIncr(t) ==
    /\ pc[t] = "am_incr"
    /\ movieCounter' = movieCounter + 1
    /\ frame' = [frame EXCEPT ![t].id = movieCounter + 1]
    /\ pc' = [pc EXCEPT ![t] = "am_unique"]
    /\ UNCHANGED << movies, theaters, movieNameToId, theaterNameToId, showLookup,
                    activeMovies, movieToTheaters, theaterCounter, showCounter,
                    shows, mtx, calls, sold, whole, issued >>

AddMovieLockUnique(t) ==
    /\ pc[t] = "am_unique"
    /\ CanLockUnique(t)
    /\ mtx' = LockUnique(t)
    /\ pc' = [pc EXCEPT ![t] = "am_insert"]
    /\ UNCHANGED << catalogVars, shows, frame, calls, sold, whole, issued >>

\* lines 109-111: try_emplace keeps an existing entry, operator[] overwrites
AddMovieInsert(t) ==
    /\ pc[t] = "am_insert"
    /\ LET id == frame[t].id IN
       /\ movies' = IF id \in DOMAIN movies THEN movies
                    ELSE Put(movies, id, [id |-> id, title |-> frame[t].name])
       /\ movieNameToId' = Put(movieNameToId, frame[t].lower, id)
       /\ frame' = [frame EXCEPT ![t].ret = id]
       /\ issued' = Issue("addMovie", id)
    /\ mtx' = UnlockUnique(t)
    /\ pc' = [pc EXCEPT ![t] = "done"]
    /\ UNCHANGED << theaters, theaterNameToId, showLookup, activeMovies,
                    movieToTheaters, movieCounter, theaterCounter, showCounter,
                    shows, calls, sold, whole >>

\* ------------------------------------------------------------- addTheater
AddTheaterCall(t, name) ==
    /\ CanCall(t)
    /\ calls' = calls + 1
    /\ pc' = [pc EXCEPT ![t] = "at_shared"]
    /\ frame' = [frame EXCEPT ![t] =
                   [Frame0 EXCEPT !.op = "addTheater", !.name = name,
                                  !.lower = toLower(name),
                                  !.known = \E m \in DOMAIN theaters :
                                              SameUpToCase(theaters[m].name, name),
                                  !.knownIds = {m \in DOMAIN theaters :
                                              SameUpToCase(theaters[m].name, name)}]]
    /\ UNCHANGED << catalogVars, shows, mtx, sold, whole, issued >>

AddTheaterLockShared(t) ==
    /\ pc[t] = "at_shared"
    /\ CanLockShared(t)
    /\ mtx' = LockShared(t)
    /\ pc' = [pc EXCEPT ![t] = "at_check"]
    /\ UNCHANGED << catalogVars, shows, frame, calls, sold, whole, issued >>

AddTheaterCheck(t) ==
    /\ pc[t] = "at_check"
    /\ mtx' = UnlockShared(t)
    /\ IF frame[t].lower \in DOMAIN theaterNameToId
       THEN /\ pc' = [pc EXCEPT ![t] = "done"]
            /\ frame' = [frame EXCEPT ![t].ret = -1,
                                      ![t].diag = theaterNameToId[frame[t].lower]]
       ELSE /\ pc' = [pc EXCEPT ![t] = "at_incr"]
            /\ frame' = frame
    /\ UNCHANGED << catalogVars, shows, calls, sold, whole, issued >>

AddTheaterIncr(t) ==
    /\ pc[t] = "at_incr"
    /\ theaterCounter' = theaterCounter + 1
    /\ frame' = [frame EXCEPT ![t].id = theaterCounter + 1]
    /\ pc' = [pc EXCEPT ![t] = "at_unique"]
    /\ UNCHANGED << movies, theaters, movieNameToId, theaterNameToId, showLookup,
                    activeMovies, movieToTheaters, movieCounter, showCounter,
                    shows, mtx, calls, sold, whole, issued >>

AddTheaterLockUnique(t) ==
    /\ pc[t] = "at_unique"
    /\ CanLockUnique(t)
    /\ mtx' = LockUnique(t)
    /\ pc' = [pc EXCEPT ![t] = "at_insert"]
    /\ UNCHANGED << catalogVars, shows, frame, calls, sold, whole, issued >>

AddTheaterInsert(t) ==
    /\ pc[t] = "at_insert"
    /\ LET id == frame[t].id IN
       /\ theaters' = IF id \in DOMAIN theaters THEN theaters
                      ELSE Put(theaters, id, [id |-> id, name |-> frame[t].name])
       /\ theaterNameToId' = Put(theaterNameToId, frame[t].lower, id)
       /\ frame' = [frame EXCEPT ![t].ret = id]
       /\ issued' = Issue("addTheater", id)
    /\ mtx' = UnlockUnique(t)
    /\ pc' = [pc EXCEPT ![t] = "done"]
    /\ UNCHANGED << movies, movieNameToId, showLookup, activeMovies,
                    movieToTheaters, movieCounter, theaterCounter, showCounter,
                    shows, calls, sold, whole >>

\* ------------------------------------------------------------- createShow
\* What createShow reads and writes besides the movie and theater maps.
ShowState(sh, lookup, active, m2t, counter) ==
    [ shows |-> sh, showLookup |-> lookup, activeMovies |-> active,
      movieToTheaters |-> m2t, showCounter |-> counter ]

CreateShowCall(t, movieId, theaterId) ==
    /\ CanCall(t)
    /\ calls' = calls + 1
    /\ pc' = [pc EXCEPT ![t] = "cs_unique"]
    /\ frame' = [frame EXCEPT ![t] =
                   [Frame0 EXCEPT !.op = "createShow", !.movieId = movieId,
                                  !.theaterId = theaterId,
                                  !.known = \E s \in DOMAIN shows :
                                              /\ shows[s].movieId = movieId
                                              /\ shows[s].theaterId = theaterId]]
    /\ UNCHANGED << catalogVars, shows, mtx, sold, whole, issued >>

CreateShowLockUnique(t) ==
    /\ pc[t] = "cs_unique"
    /\ CanLockUnique(t)
    /\ mtx' = LockUnique(t)
    /\ pc' = [pc EXCEPT ![t] = "cs_body"]
    /\ UNCHANGED << catalogVars, shows, frame, calls, sold, whole, issued >>

\* line 171 (MovieKnownMut: the check left out)
MovieKnownMut(movieId) == TRUE
MovieKnown(movieId) == movieId \in DOMAIN movies
\* line 175
TheaterKnown(theaterId) == theaterId \in DOMAIN theaters
\* lines 180-181 (ShowExistsForMut: the check left out)
ShowExistsForMut(movieId, theaterId) == FALSE
ShowExistsFor(movieId, theaterId) == <<movieId, theaterId>> \in DOMAIN showLookup

\* std::make_shared<Show>() with seats.assign(TOTAL_SEATS, false)
\* (NewShowMut: the two ids stored in each other's field)
NewShowMut(movieId, theaterId) ==
    [ movieId |-> theaterId, theaterId |-> movieId,
      seats |-> [i \in SeatIdx |-> FALSE],
      mtx |-> NoThread,
      availableCount |-> TOTAL_SEATS ]
NewShow(movieId, theaterId) ==
    [ movieId |-> movieId, theaterId |-> theaterId,
      seats |-> [i \in SeatIdx |-> FALSE],
      mtx |-> NoThread,
      availableCount |-> TOTAL_SEATS ]

\* lines 171-198, all under the unique lock taken at line 169
CreateShowBody(t) ==
    /\ pc[t] = "cs_body"
    /\ mtx' = UnlockUnique(t)
    /\ pc' = [pc EXCEPT ![t] = "done"]
    /\ LET m   == frame[t].movieId
           th  == frame[t].theaterId
           id  == showCounter + 1
           pre == [ShowState(shows, showLookup, activeMovies, movieToTheaters,
                             showCounter)
                   EXCEPT !.shows = DOMAIN shows] @@
                  [movies |-> DOMAIN movies, theaters |-> DOMAIN theaters]
       IN IF ~MovieKnown(m) \/ ~TheaterKnown(th) \/ ShowExistsFor(m, th)
          THEN /\ frame' = [frame EXCEPT ![t].ret = -1, ![t].entry = pre,
                                         ![t].exit = pre]
               /\ UNCHANGED << shows, showLookup, activeMovies, movieToTheaters,
                               showCounter, sold, whole, issued >>
          ELSE /\ showCounter' = id
               /\ shows' = IF id \in DOMAIN shows THEN shows
                           ELSE Put(shows, id, NewShow(m, th))
               /\ showLookup' = Put(showLookup, <<m, th>>, id)
               /\ activeMovies' = activeMovies \cup {m}
               /\ movieToTheaters' =
                      Put(movieToTheaters, m,
                          (IF m \in DOMAIN movieToTheaters
                           THEN movieToTheaters[m] ELSE {}) \cup {th})
               /\ frame' = [frame EXCEPT
                              ![t].ret = id, ![t].entry = pre,
                              ![t].exit =
                                  [ShowState(shows', showLookup', activeMovies',
                                             movieToTheaters', showCounter')
                                   EXCEPT !.shows = DOMAIN shows'] @@
                                  [movies |-> DOMAIN movies,
                                   theaters |-> DOMAIN theaters]]
               /\ sold' = IF id \in DOMAIN sold THEN sold
                          ELSE Put(sold, id, [i \in SeatIdx |-> 0])
               /\ whole' = IF id \in DOMAIN whole THEN whole
                           ELSE Put(whole, id, {NewShow(m, th).seats})
               /\ issued' = Issue("createShow", id)
    /\ UNCHANGED << movies, theaters, movieNameToId, theaterNameToId,
                    movieCounter, theaterCounter, calls >>

\* ---------------------------------------------------------- the show lock
\* std::lock_guard<std::mutex> guard(show->mtx) blocks while the lock is held.
\* (CanLockShowMut: a guard that never waits; CanLockShowOneMut: one mutex
\* shared by all shows)
CanLockShowMut(s) == TRUE
CanLockShowOneMut(s) == \A s2 \in DOMAIN shows : shows[s2].mtx = NoThread
CanLockShow(s) == shows[s].mtx = NoThread

SeatState(s) == [seats |-> shows[s].seats, availableCount |-> shows[s].availableCount]

\* ------------------------------------------------------ getAvailableSeats
GetAvailableSeatsCall(t, showId) ==
    /\ CanCall(t)
    /\ calls' = calls + 1
    /\ pc' = [pc EXCEPT ![t] = "ga_shared"]
    /\ frame' = [frame EXCEPT ![t] =
                   [Frame0 EXCEPT !.op = "getAvailableSeats", !.showId = showId,
                                  !.known = showId \in DOMAIN shows]]
    /\ UNCHANGED << catalogVars, shows, mtx, sold, whole, issued >>

GetAvailableSeatsLockShared(t) ==
    /\ pc[t] = "ga_shared"
    /\ CanLockShared(t)
    /\ mtx' = LockShared(t)
    /\ pc' = [pc EXCEPT ![t] = "ga_find"]
    /\ UNCHANGED << catalogVars, shows, frame, calls, sold, whole, issued >>

\* lines 220-223: unknown id throws std::invalid_argument
\* (GetAvailableSeatsFindMut: unknown id answered with an empty vector)
GetAvailableSeatsFindMut(t) ==
    /\ pc[t] = "ga_find"
    /\ mtx' = UnlockShared(t)
    /\ LET s == frame[t].showId IN
       IF s \notin DOMAIN shows
       THEN /\ pc' = [pc EXCEPT ![t] = "done"]
            /\ frame' = [frame EXCEPT ![t].available = << >>]
       ELSE /\ pc' = [pc EXCEPT ![t] = "ga_lock"]
            /\ frame' = [frame EXCEPT ![t].show = s,
                                      ![t].raced = shows[s].seats \notin whole[s]]
    /\ UNCHANGED << catalogVars, shows, calls, sold, whole, issued >>
GetAvailableSeatsFind(t) ==
    /\ pc[t] = "ga_find"
    /\ mtx' = UnlockShared(t)
    /\ LET s == frame[t].showId IN
       IF s \notin DOMAIN shows
       THEN /\ pc' = [pc EXCEPT ![t] = "done"]
            /\ frame' = [frame EXCEPT ![t].threw = TRUE]
       ELSE /\ pc' = [pc EXCEPT ![t] = "ga_lock"]
            /\ frame' = [frame EXCEPT ![t].show = s,
                                      ![t].raced = shows[s].seats \notin whole[s]]
    /\ UNCHANGED << catalogVars, shows, calls, sold, whole, issued >>

\* (GetAvailableSeatsLockShowMut: the seats read without the show lock)
GetAvailableSeatsLockShowMut(t) ==
    /\ pc[t] = "ga_lock"
    /\ pc' = [pc EXCEPT ![t] = "ga_read"]
    /\ UNCHANGED << catalogVars, shows, mtx, frame, calls, sold, whole, issued >>
\* line 225
GetAvailableSeatsLockShow(t) ==
    /\ pc[t] = "ga_lock"
    /\ CanLockShow(frame[t].show)
    /\ shows' = [shows EXCEPT ![frame[t].show].mtx = t]
    /\ pc' = [pc EXCEPT ![t] = "ga_read"]
    /\ UNCHANGED << catalogVars, mtx, frame, calls, sold, whole, issued >>

\* lines 228-230: the labels of the unoccupied seats from index i on
\* (AvailableFromMut: the loop ends one seat early)
RECURSIVE AvailableFromMut(_, _)
AvailableFromMut(seats, i) ==
    IF i >= TOTAL_SEATS - 1 THEN << >>
    ELSE (IF ~seats[i] THEN <<seatLabelFromIndex(i)>> ELSE << >>)
         \o AvailableFromMut(seats, i + 1)
RECURSIVE AvailableFrom(_, _)
AvailableFrom(seats, i) ==
    IF i >= TOTAL_SEATS THEN << >>
    ELSE (IF ~seats[i] THEN <<seatLabelFromIndex(i)>> ELSE << >>)
         \o AvailableFrom(seats, i + 1)

\* lines 226-231; reserve() of a negative count throws std::length_error
GetAvailableSeatsRead(t) ==
    /\ pc[t] = "ga_read"
    /\ LET s == frame[t].show IN
       /\ shows' = [shows EXCEPT ![s].mtx = NoThread]
       /\ frame' = IF shows[s].availableCount < 0
                   THEN [frame EXCEPT ![t].threw = TRUE]
                   ELSE [frame EXCEPT
                           ![t].available = AvailableFrom(shows[s].seats, 0),
                           ![t].entry = SeatState(s),
                           ![t].soldBefore = {i \in SeatIdx : sold[s][i] > 0}]
    /\ pc' = [pc EXCEPT ![t] = "done"]
    /\ UNCHANGED << catalogVars, mtx, calls, sold, whole, issued >>

\* -------------------------------------------------------------- bookSeats
BookSeatsCall(t, showId, seatLabels) ==
    /\ CanCall(t)
    /\ calls' = calls + 1
    /\ pc' = [pc EXCEPT ![t] = "bs_shared"]
    /\ frame' = [frame EXCEPT ![t] =
                   [Frame0 EXCEPT !.op = "bookSeats", !.showId = showId,
                                  !.seatLabels = seatLabels,
                                  !.known = showId \in DOMAIN shows]]
    /\ UNCHANGED << catalogVars, shows, mtx, sold, whole, issued >>

BookSeatsLockShared(t) ==
    /\ pc[t] = "bs_shared"
    /\ CanLockShared(t)
    /\ mtx' = LockShared(t)
    /\ pc' = [pc EXCEPT ![t] = "bs_find"]
    /\ UNCHANGED << catalogVars, shows, frame, calls, sold, whole, issued >>

\* lines 257-261
\* (BookSeatsFindMut: line 261 left out, the shared lock kept over the booking)
BookSeatsFindMut(t) ==
    /\ pc[t] = "bs_find"
    /\ IF frame[t].showId \notin DOMAIN shows
       THEN /\ pc' = [pc EXCEPT ![t] = "done"]
            /\ frame' = [frame EXCEPT ![t].ok = FALSE]
            /\ mtx' = UnlockShared(t)
       ELSE /\ pc' = [pc EXCEPT ![t] = "bs_lock"]
            /\ frame' = [frame EXCEPT ![t].show = frame[t].showId]
            /\ mtx' = mtx
    /\ UNCHANGED << catalogVars, shows, calls, sold, whole, issued >>
BookSeatsFind(t) ==
    /\ pc[t] = "bs_find"
    /\ mtx' = UnlockShared(t)
    /\ IF frame[t].showId \notin DOMAIN shows
       THEN /\ pc' = [pc EXCEPT ![t] = "done"]
            /\ frame' = [frame EXCEPT ![t].ok = FALSE]
       ELSE /\ pc' = [pc EXCEPT ![t] = "bs_lock"]
            /\ frame' = [frame EXCEPT ![t].show = frame[t].showId]
    /\ UNCHANGED << catalogVars, shows, calls, sold, whole, issued >>

\* lines 263-267: the lock, then seen, tmpIndices and n = 0
BookSeatsLockShow(t) ==
    /\ pc[t] = "bs_lock"
    /\ LET s == frame[t].show IN
       /\ CanLockShow(s)
       /\ shows' = [shows EXCEPT ![s].mtx = t]
       /\ frame' = [frame EXCEPT
                      ![t].seen = {}, ![t].tmpIndices = << >>, ![t].n = 0,
                      ![t].k = 1, ![t].entry = SeatState(s)]
    /\ pc' = [pc EXCEPT ![t] = IF frame[t].seatLabels = << >>
                               THEN "bs_commit" ELSE "bs_loop"]
    /\ UNCHANGED << catalogVars, mtx, calls, sold, whole, issued >>

\* line 281: show->seats[idx]  (SeatTakenMut: the occupied check left out;
\* SeatTakenNotMut: the condition inverted)
SeatTakenMut(show, idx) == FALSE
SeatTakenNotMut(show, idx) == ~show.seats[idx]
SeatTaken(show, idx) == show.seats[idx]

\* lines 271-285, what one iteration does to the Show: a rejected label
\* returns false, which releases the lock; an accepted one is only staged
\* in tmpIndices, the seats are not written before the loop of line 288.
\* (ShowAfterCheckMut: each accepted seat booked at once, inside the loop;
\* ShowAfterCheckUndoMut: a rejected request clears the seat it stumbled on)
ShowAfterCheckUndoMut(show, idx, rejected) ==
    IF rejected
    THEN IF idx >= 0 THEN [show EXCEPT !.mtx = NoThread, !.seats[idx] = FALSE]
         ELSE [show EXCEPT !.mtx = NoThread]
    ELSE show
ShowAfterCheckMut(show, idx, rejected) ==
    IF rejected THEN [show EXCEPT !.mtx = NoThread]
    ELSE [show EXCEPT !.seats[idx] = TRUE, !.availableCount = @ - 1]
ShowAfterCheck(show, idx, rejected) ==
    IF rejected THEN [show EXCEPT !.mtx = NoThread] ELSE show

\* line 276: seen[idx]  (SeenBeforeMut: the repeated-seat check left out)
SeenBeforeMut(seen, idx) == FALSE
SeenBefore(seen, idx) == idx \in seen

\* lines 269-286: one iteration of the validation loop, on label number k
BookSeatsCheckLabel(t) ==
    /\ pc[t] = "bs_loop"
    /\ LET s   == frame[t].show
           lbl == frame[t].seatLabels[frame[t].k]
           idx == seatIndexFromLabel(lbl)
           rejected == \/ idx < 0
                       \/ SeenBefore(frame[t].seen, idx)
                       \/ SeatTaken(shows[s], idx)
       IN /\ shows' = [shows EXCEPT ![s] = ShowAfterCheck(@, idx, rejected)]
          /\ IF rejected
             THEN /\ frame' = [frame EXCEPT
                                 ![t].ok = FALSE,
                                 ![t].seen = IF idx < 0 \/ SeenBefore(@, idx) THEN @
                                             ELSE @ \cup {idx},
                                 ![t].exit = [seats |-> shows'[s].seats,
                                              availableCount |-> shows'[s].availableCount]]
                  /\ pc' = [pc EXCEPT ![t] = "done"]
             ELSE /\ frame' = [frame EXCEPT
                                 ![t].seen = @ \cup {idx},
                                 ![t].tmpIndices = Append(@, idx),
                                 ![t].n = @ + 1,
                                 ![t].k = @ + 1]
                  /\ pc' = [pc EXCEPT ![t] = IF frame[t].k = Len(frame[t].seatLabels)
                                             THEN "bs_commit" ELSE "bs_loop"]
    /\ UNCHANGED << catalogVars, mtx, calls, sold, whole, issued >>

\* line 289: show->seats[tmpIndices[i]] = true  (MarkSeatMut: no write)
MarkSeatMut(show, idx) == show
MarkSeat(show, idx) == [show EXCEPT !.seats[idx] = TRUE]

BookSeatsCommitSeat(t) ==
    /\ pc[t] = "bs_commit"
    /\ frame[t].i < frame[t].n
    /\ shows' = [shows EXCEPT ![frame[t].show] =
                    MarkSeat(@, frame[t].tmpIndices[frame[t].i + 1])]
    /\ pc' = [pc EXCEPT ![t] = "bs_count"]
    /\ UNCHANGED << catalogVars, mtx, frame, calls, sold, whole, issued >>

\* line 290: show->availableCount--  (DecrementCountMut: no decrement)
DecrementCountMut(show) == show
DecrementCount(show) == [show EXCEPT !.availableCount = @ - 1]

\* line 290, then ++i
BookSeatsCommitCount(t) ==
    /\ pc[t] = "bs_count"
    /\ shows' = [shows EXCEPT ![frame[t].show] = DecrementCount(@)]
    /\ frame' = [frame EXCEPT ![t].i = @ + 1]
    /\ pc' = [pc EXCEPT ![t] = "bs_commit"]
    /\ UNCHANGED << catalogVars, mtx, calls, sold, whole, issued >>

\* line 292: return true, the guard releases the show lock
BookSeatsReturnTrue(t) ==
    /\ pc[t] = "bs_commit"
    /\ frame[t].i >= frame[t].n
    /\ LET s == frame[t].show
           taken == { frame[t].tmpIndices[j] : j \in 1..frame[t].n }
       IN /\ shows' = [shows EXCEPT ![s].mtx = NoThread]
          /\ sold' = [sold EXCEPT ![s] =
                        [x \in SeatIdx |-> IF x \in taken THEN @[x] + 1 ELSE @[x]]]
          /\ whole' = [whole EXCEPT ![s] = @ \cup {shows[s].seats}]
          /\ frame' = [frame EXCEPT ![t].ok = TRUE, ![t].exit = SeatState(s)]
    /\ pc' = [pc EXCEPT ![t] = "done"]
    /\ UNCHANGED << catalogVars, mtx, calls, issued >>

\* ------------------------------------------- getMovieTitle, getTheaterName
\* "Unknown Movie", "Unknown Theater"
UnknownMovie   == << 85, 110, 107, 110, 111, 119, 110, 32, 77, 111, 118, 105, 101 >>
UnknownTheater == << 85, 110, 107, 110, 111, 119, 110, 32,
                     84, 104, 101, 97, 116, 101, 114 >>

\* A thread is in lock() on mtx_, or about to be, for the unique lock.
WriterWaiting == \E u \in Threads : pc[u] \in { "am_unique", "at_unique", "cs_unique" }

GetMovieTitleCall(t, movieId) ==
    /\ CanCall(t)
    /\ calls' = calls + 1
    /\ pc' = [pc EXCEPT ![t] = "gm_shared"]
    /\ frame' = [frame EXCEPT ![t] =
                   [Frame0 EXCEPT !.op = "getMovieTitle", !.movieId = movieId]]
    /\ UNCHANGED << catalogVars, shows, mtx, sold, whole, issued >>

\* line 368.  Called from getAllShows or listTheatersForMovie the thread
\* already owns mtx_ in shared mode, and lock_shared() on a shared_mutex the
\* thread owns is undefined: an implementation that lets readers in while
\* no writer holds the lock counts the thread a second time (this action);
\* one that holds new readers back while a writer waits blocks it
\* (GetMovieTitleRelockBlocks).
GetMovieTitleLockShared(t) ==
    /\ pc[t] = "gm_shared"
    /\ CanLockShared(t)
    /\ mtx' = LockShared(t)
    /\ pc' = [pc EXCEPT ![t] = "gm_find"]
    /\ UNCHANGED << catalogVars, shows, frame, calls, sold, whole, issued >>

\* line 368 again: the thread waits behind a writer that itself waits for
\* the shared lock this thread holds; neither is ever woken.
GetMovieTitleRelockBlocks(t) ==
    /\ pc[t] = "gm_shared"
    /\ mtx.readers[t] > 0
    /\ WriterWaiting
    /\ pc' = [pc EXCEPT ![t] = "gm_blocked"]
    /\ UNCHANGED << catalogVars, shows, mtx, frame, calls, sold, whole, issued >>

\* lines 369-370, and the shared_lock released on return
GetMovieTitleFind(t) ==
    /\ pc[t] = "gm_find"
    /\ mtx' = UnlockShared(t)
    /\ LET m == frame[t].movieId
           r == IF m \in DOMAIN movies THEN movies[m].title ELSE UnknownMovie
       IN frame' = [frame EXCEPT ![t].text = r, ![t].title = r]
    /\ pc' = [pc EXCEPT ![t] = frame[t].retpc]
    /\ UNCHANGED << catalogVars, shows, calls, sold, whole, issued >>

GetTheaterNameCall(t, theaterId) ==
    /\ CanCall(t)
    /\ calls' = calls + 1
    /\ pc' = [pc EXCEPT ![t] = "gt_shared"]
    /\ frame' = [frame EXCEPT ![t] =
                   [Frame0 EXCEPT !.op = "getTheaterName", !.theaterId = theaterId]]
    /\ UNCHANGED << catalogVars, shows, mtx, sold, whole, issued >>

\* line 390, as line 368
GetTheaterNameLockShared(t) ==
    /\ pc[t] = "gt_shared"
    /\ CanLockShared(t)
    /\ mtx' = LockShared(t)
    /\ pc' = [pc EXCEPT ![t] = "gt_find"]
    /\ UNCHANGED << catalogVars, shows, frame, calls, sold, whole, issued >>

GetTheaterNameRelockBlocks(t) ==
    /\ pc[t] = "gt_shared"
    /\ mtx.readers[t] > 0
    /\ WriterWaiting
    /\ pc' = [pc EXCEPT ![t] = "gt_blocked"]
    /\ UNCHANGED << catalogVars, shows, mtx, frame, calls, sold, whole, issued >>

\* lines 391-392
GetTheaterNameFind(t) ==
    /\ pc[t] = "gt_find"
    /\ mtx' = UnlockShared(t)
    /\ LET th == frame[t].theaterId
           r  == IF th \in DOMAIN theaters THEN theaters[th].name ELSE UnknownTheater
       IN frame' = [frame EXCEPT ![t].text = r]
    /\ pc' = [pc EXCEPT ![t] = frame[t].retpc]
    /\ UNCHANGED << catalogVars, shows, calls, sold, whole, issued >>

\* ------------------------------------------------------------ getAllShows
GetAllShowsCall(t) ==
    /\ CanCall(t)
    /\ calls' = calls + 1
    /\ pc' = [pc EXCEPT ![t] = "gs_shared"]
    /\ frame' = [frame EXCEPT ![t] = [Frame0 EXCEPT !.op = "getAllShows"]]
    /\ UNCHANGED << catalogVars, shows, mtx, sold, whole, issued >>

\* lines 407-411: the lock, the empty vector, the range-for over shows_
GetAllShowsLockShared(t) ==
    /\ pc[t] = "gs_shared"
    /\ CanLockShared(t)
    /\ mtx' = LockShared(t)
    /\ frame' = [frame EXCEPT ![t].info = << >>, ![t].todo = DOMAIN shows]
    /\ pc' = [pc EXCEPT ![t] = "gs_loop"]
    /\ UNCHANGED << catalogVars, shows, calls, sold, whole, issued >>

\* lines 411-415: the next show in the unspecified order of the
\* unordered_map and the call of getMovieTitle for it, or, after the last
\* one, line 420 with the release of the shared lock
GetAllShowsNext(t) ==
    /\ pc[t] = "gs_loop"
    /\ IF frame[t].todo = {}
       THEN /\ mtx' = UnlockShared(t)
            /\ pc' = [pc EXCEPT ![t] = "done"]
            /\ frame' = frame
       ELSE /\ \E sid \in frame[t].todo :
                  frame' = [frame EXCEPT
                              ![t].cur = sid, ![t].todo = @ \ {sid},
                              ![t].movieId = shows[sid].movieId,
                              ![t].theaterId = shows[sid].theaterId,
                              ![t].retpc = "gs_theater"]
            /\ pc' = [pc EXCEPT ![t] = "gm_shared"]
            /\ mtx' = mtx
    /\ UNCHANGED << catalogVars, shows, calls, sold, whole, issued >>

\* line 416: the call of getTheaterName
GetAllShowsTheater(t) ==
    /\ pc[t] = "gs_theater"
    /\ frame' = [frame EXCEPT ![t].retpc = "gs_count"]
    /\ pc' = [pc EXCEPT ![t] = "gt_shared"]
    /\ UNCHANGED << catalogVars, shows, mtx, calls, sold, whole, issued >>

\* lines 413-418: showPtr->availableCount is read without the show's mutex
\* (raced: a booking held it then) and the ShowInfo is pushed
GetAllShowsReadCount(t) ==
    /\ pc[t] = "gs_count"
    /\ LET sid == frame[t].cur IN
       frame' = [frame EXCEPT
                   ![t].info = Append(@, [id |-> sid,
                                          movieTitle |-> frame[t].title,
                                          theaterName |-> frame[t].text,
                                          availableSeats |-> shows[sid].availableCount]),
                   ![t].raced = @ \/ shows[sid].mtx # NoThread]
    /\ pc' = [pc EXCEPT ![t] = "gs_loop"]
    /\ UNCHANGED << catalogVars, shows, mtx, calls, sold, whole, issued >>

\* --------------------------------------------------- listTheatersForMovie
\* "No theaters found for this movie."
NoTheatersFound ==
    << 78, 111, 32, 116, 104, 101, 97, 116, 101, 114, 115, 32,
       102, 111, 117, 110, 100, 32, 102, 111, 114, 32, 116, 104,
       105, 115, 32, 109, 111, 118, 105, 101, 46 >>

ListTheatersForMovieCall(t, movieId) ==
    /\ CanCall(t)
    /\ calls' = calls + 1
    /\ pc' = [pc EXCEPT ![t] = "lt_shared"]
    /\ frame' = [frame EXCEPT ![t] =
                   [Frame0 EXCEPT !.op = "listTheatersForMovie", !.movieId = movieId]]
    /\ UNCHANGED << catalogVars, shows, mtx, sold, whole, issued >>

ListTheatersForMovieLockShared(t) ==
    /\ pc[t] = "lt_shared"
    /\ CanLockShared(t)
    /\ mtx' = LockShared(t)
    /\ pc' = [pc EXCEPT ![t] = "lt_find"]
    /\ UNCHANGED << catalogVars, shows, frame, calls, sold, whole, issued >>

\* lines 339-345: no theaters, or the call of getMovieTitle for the header
ListTheatersForMovieFind(t) ==
    /\ pc[t] = "lt_find"
    /\ LET m == frame[t].movieId IN
       IF m \notin DOMAIN movieToTheaters \/ movieToTheaters[m] = {}
       THEN /\ mtx' = UnlockShared(t)
            /\ frame' = [frame EXCEPT ![t].text = NoTheatersFound]
            /\ pc' = [pc EXCEPT ![t] = "done"]
       ELSE /\ mtx' = mtx
            /\ frame' = [frame EXCEPT ![t].todo = movieToTheaters[m],
                                      ![t].retpc = "lt_loop"]
            /\ pc' = [pc EXCEPT ![t] = "gm_shared"]
    /\ UNCHANGED << catalogVars, shows, calls, sold, whole, issued >>

\* lines 346-347: the next theater id and the call of getTheaterName for
\* it, or the end of the loop and the release of the shared lock
ListTheatersForMovieNext(t) ==
    /\ pc[t] = "lt_loop"
    /\ IF frame[t].todo = {}
       THEN /\ mtx' = UnlockShared(t)
            /\ pc' = [pc EXCEPT ![t] = "done"]
            /\ frame' = frame
       ELSE /\ \E tid \in frame[t].todo :
                  frame' = [frame EXCEPT
                              ![t].cur = tid, ![t].todo = @ \ {tid},
                              ![t].theaterId = tid, ![t].retpc = "lt_line"]
            /\ pc' = [pc EXCEPT ![t] = "gt_shared"]
            /\ mtx' = mtx
    /\ UNCHANGED << catalogVars, shows, calls, sold, whole, issued >>

\* line 347: the line written for the theater
ListTheatersForMovieLine(t) ==
    /\ pc[t] = "lt_line"
    /\ frame' = [frame EXCEPT
                   ![t].info = Append(@, [id |-> frame[t].cur, name |-> frame[t].text])]
    /\ pc' = [pc EXCEPT ![t] = "lt_loop"]
    /\ UNCHANGED << catalogVars, shows, mtx, calls, sold, whole, issued >>

\* ------------------------------------------------------------------ Next
\* A run has two parts, as the tests of the service have: first the main
\* thread (thread 1) alone makes SetupCalls calls one after the other, then
\* all threads make up to MaxCalls calls concurrently.
MainThread == CHOOSE t \in Threads : \A u \in Threads : t <= u
InSetup(t, setup) == t = MainThread /\ calls < setup
InConcurrent(t, setup, max) ==
    /\ calls < setup + max
    /\ \/ calls > setup
       \/ calls = setup /\ pc[MainThread] = "idle"

\* Threads building the catalog, from the empty service.
NextCatalog ==
    \E t \in Workers :
        \/ /\ InSetup(t, SetupCalls) \/ InConcurrent(t, SetupCalls, MaxCalls)
           /\ \/ \E title \in MovieTitles : AddMovieCall(t, title)
              \/ \E name \in TheaterNames : AddTheaterCall(t, name)
              \/ \E m \in ArgIds, th \in ArgIds : CreateShowCall(t, m, th)
        \/ AddMovieLockShared(t)
        \/ AddMovieCheck(t)
        \/ AddMovieIncr(t)
        \/ AddMovieLockUnique(t)
        \/ AddMovieInsert(t)
        \/ AddTheaterLockShared(t)
        \/ AddTheaterCheck(t)
        \/ AddTheaterIncr(t)
        \/ AddTheaterLockUnique(t)
        \/ AddTheaterInsert(t)
        \/ CreateShowLockUnique(t)
        \/ CreateShowBody(t)
        \/ Return(t)

SpecCatalog == Init /\ [][NextCatalog]_vars

\* The fixture of the tests (test_booking.cpp lines 31-34, 60-63, 88-91):
\* one movie, one theater and their show, made by the main thread.
Fixture ==
    << [op |-> "addMovie",   name |-> <<65, 98>>],
       [op |-> "addTheater", name |-> <<80, 118>>],
       [op |-> "createShow", movieId |-> 1, theaterId |-> 1] >>

FixtureCall(t) ==
    /\ InSetup(t, Len(Fixture))
    /\ LET c == Fixture[calls + 1] IN
       \/ c.op = "addMovie"   /\ AddMovieCall(t, c.name)
       \/ c.op = "addTheater" /\ AddTheaterCall(t, c.name)
       \/ c.op = "createShow" /\ CreateShowCall(t, c.movieId, c.theaterId)

\* Threads booking and querying seats of the fixture's show.
NextBook ==
    \E t \in Workers :
        \/ FixtureCall(t)
        \/ /\ InConcurrent(t, Len(Fixture), MaxBookings)
           /\ \/ \E s \in ArgIds : GetAvailableSeatsCall(t, s)
              \/ \E b \in Bookings : BookSeatsCall(t, b[1], b[2])
        \/ AddMovieLockShared(t)
        \/ AddMovieCheck(t)
        \/ AddMovieIncr(t)
        \/ AddMovieLockUnique(t)
        \/ AddMovieInsert(t)
        \/ AddTheaterLockShared(t)
        \/ AddTheaterCheck(t)
        \/ AddTheaterIncr(t)
        \/ AddTheaterLockUnique(t)
        \/ AddTheaterInsert(t)
        \/ CreateShowLockUnique(t)
        \/ CreateShowBody(t)
        \/ GetAvailableSeatsLockShared(t)
        \/ GetAvailableSeatsFind(t)
        \/ GetAvailableSeatsLockShow(t)
        \/ GetAvailableSeatsRead(t)
        \/ BookSeatsLockShared(t)
        \/ BookSeatsFind(t)
        \/ BookSeatsLockShow(t)
        \/ BookSeatsCheckLabel(t)
        \/ BookSeatsCommitSeat(t)
        \/ BookSeatsCommitCount(t)
        \/ BookSeatsReturnTrue(t)
        \/ Return(t)

SpecBook == Init /\ [][NextBook]_vars

\* The race of the test "Concurrent booking: no double-booking occurs"
\* (test_booking.cpp lines 59-83): after the fixture, every thread that
\* takes part calls bookSeats once on the show, all with the same one label.
RaceLabels == { L(1), L(10), L(20) }

RaceCall(t) ==
    /\ InConcurrent(t, Len(Fixture), NThreads)
    /\ \E lbl \in RaceLabels :
          /\ \A u \in Threads : frame[u].op = "bookSeats" => frame[u].seatLabels = <<lbl>>
          /\ BookSeatsCall(t, 1, <<lbl>>)

NextSameSeat ==
    \E t \in Threads :
        \/ FixtureCall(t)
        \/ RaceCall(t)
        \/ AddMovieLockShared(t)
        \/ AddMovieCheck(t)
        \/ AddMovieIncr(t)
        \/ AddMovieLockUnique(t)
        \/ AddMovieInsert(t)
        \/ AddTheaterLockShared(t)
        \/ AddTheaterCheck(t)
        \/ AddTheaterIncr(t)
        \/ AddTheaterLockUnique(t)
        \/ AddTheaterInsert(t)
        \/ CreateShowLockUnique(t)
        \/ CreateShowBody(t)
        \/ BookSeatsLockShared(t)
        \/ BookSeatsFind(t)
        \/ BookSeatsLockShow(t)
        \/ BookSeatsCheckLabel(t)
        \/ BookSeatsCommitSeat(t)
        \/ BookSeatsCommitCount(t)
        \/ BookSeatsReturnTrue(t)
        \/ frame[t].op # "bookSeats" /\ Return(t)

SpecSameSeat == Init /\ [][NextSameSeat]_vars

\* The test "Concurrency stress test" (test_booking.cpp lines 86-127) with
\* at most as many threads as seats: after the fixture, thread number i
\* books the one seat seats[i] of a shuffled list of the labels, so no two
\* threads ask for the same seat.  StressSeats is the head of such a list.
StressSeats == << L(20), L(1), L(10), L(9), L(19), L(2) >>

StressCall(t) ==
    /\ InConcurrent(t, Len(Fixture), NThreads)
    /\ BookSeatsCall(t, 1, <<StressSeats[((t - 1) % Len(StressSeats)) + 1]>>)

NextStress ==
    \E t \in Threads :
        \/ FixtureCall(t)
        \/ StressCall(t)
        \/ AddMovieLockShared(t)
        \/ AddMovieCheck(t)
        \/ AddMovieIncr(t)
        \/ AddMovieLockUnique(t)
        \/ AddMovieInsert(t)
        \/ AddTheaterLockShared(t)
        \/ AddTheaterCheck(t)
        \/ AddTheaterIncr(t)
        \/ AddTheaterLockUnique(t)
        \/ AddTheaterInsert(t)
        \/ CreateShowLockUnique(t)
        \/ CreateShowBody(t)
        \/ BookSeatsLockShared(t)
        \/ BookSeatsFind(t)
        \/ BookSeatsLockShow(t)
        \/ BookSeatsCheckLabel(t)
        \/ BookSeatsCommitSeat(t)
        \/ BookSeatsCommitCount(t)
        \/ BookSeatsReturnTrue(t)
        \/ frame[t].op # "bookSeats" /\ Return(t)

SpecStress == Init /\ [][NextStress]_vars

\* The stress test with callers that ask for the same seats, and its final
\* count (test_booking.cpp lines 110-122): after the fixture every thread
\* but the main one books one seat out of a few; when all of them have
\* returned (join), the main thread calls getAvailableSeats.
TallyLabels == { L(1), L(TOTAL_SEATS) }

TallyBook(t) ==
    /\ t # MainThread
    /\ InConcurrent(t, Len(Fixture), NThreads)
    /\ \A u \in Threads : frame[u].op # "getAvailableSeats"
    /\ \E lbl \in TallyLabels : BookSeatsCall(t, 1, <<lbl>>)

TallyCount(t) ==
    /\ t = MainThread
    /\ calls > Len(Fixture)
    /\ \A u \in Threads : pc[u] \in { "idle", "done" }
    /\ GetAvailableSeatsCall(t, 1)

NextTally ==
    \E t \in Threads :
        \/ FixtureCall(t)
        \/ TallyBook(t)
        \/ TallyCount(t)
        \/ AddMovieLockShared(t)
        \/ AddMovieCheck(t)
        \/ AddMovieIncr(t)
        \/ AddMovieLockUnique(t)
        \/ AddMovieInsert(t)
        \/ AddTheaterLockShared(t)
        \/ AddTheaterCheck(t)
        \/ AddTheaterIncr(t)
        \/ AddTheaterLockUnique(t)
        \/ AddTheaterInsert(t)
        \/ CreateShowLockUnique(t)
        \/ CreateShowBody(t)
        \/ GetAvailableSeatsLockShared(t)
        \/ GetAvailableSeatsFind(t)
        \/ GetAvailableSeatsLockShow(t)
        \/ GetAvailableSeatsRead(t)
        \/ BookSeatsLockShared(t)
        \/ BookSeatsFind(t)
        \/ BookSeatsLockShow(t)
        \/ BookSeatsCheckLabel(t)
        \/ BookSeatsCommitSeat(t)
        \/ BookSeatsCommitCount(t)
        \/ BookSeatsReturnTrue(t)
        \/ frame[t].op \in CreateOps /\ Return(t)

SpecTally == Init /\ [][NextTally]_vars

\* Two shows of one movie in two theaters, made by the main thread, then
\* threads booking and querying seats of both.
TwoShows ==
    << [op |-> "addMovie",   name |-> <<65, 98>>],
       [op |-> "addTheater", name |-> <<80, 118>>],
       [op |-> "addTheater", name |-> <<81, 114>>],
       [op |-> "createShow", movieId |-> 1, theaterId |-> 1],
       [op |-> "createShow", movieId |-> 1, theaterId |-> 2] >>

TwoShowsCall(t) ==
    /\ InSetup(t, Len(TwoShows))
    /\ LET c == TwoShows[calls + 1] IN
       \/ c.op = "addMovie"   /\ AddMovieCall(t, c.name)
       \/ c.op = "addTheater" /\ AddTheaterCall(t, c.name)
       \/ c.op = "createShow" /\ CreateShowCall(t, c.movieId, c.theaterId)

TwoShowsBookings ==
    { <<1, <<L(1)>> >>, <<2, <<L(1)>> >>, <<1, <<L(2), L(1)>> >>, <<2, <<L(2), LabelZ9>> >> }

NextTwoShows ==
    \E t \in Workers :
        \/ TwoShowsCall(t)
        \/ /\ InConcurrent(t, Len(TwoShows), MaxBookings)
           /\ \/ \E s \in ArgIds : GetAvailableSeatsCall(t, s)
              \/ \E b \in TwoShowsBookings : BookSeatsCall(t, b[1], b[2])
        \/ AddMovieLockShared(t)
        \/ AddMovieCheck(t)
        \/ AddMovieIncr(t)
        \/ AddMovieLockUnique(t)
        \/ AddMovieInsert(t)
        \/ AddTheaterLockShared(t)
        \/ AddTheaterCheck(t)
        \/ AddTheaterIncr(t)
        \/ AddTheaterLockUnique(t)
        \/ AddTheaterInsert(t)
        \/ CreateShowLockUnique(t)
        \/ CreateShowBody(t)
        \/ GetAvailableSeatsLockShared(t)
        \/ GetAvailableSeatsFind(t)
        \/ GetAvailableSeatsLockShow(t)
        \/ GetAvailableSeatsRead(t)
        \/ BookSeatsLockShared(t)
        \/ BookSeatsFind(t)
        \/ BookSeatsLockShow(t)
        \/ BookSeatsCheckLabel(t)
        \/ BookSeatsCommitSeat(t)
        \/ BookSeatsCommitCount(t)
        \/ BookSeatsReturnTrue(t)
        \/ Return(t)

SpecTwoShows == Init /\ [][NextTwoShows]_vars

\* The two shows again, then threads booking the same seats of both, the
\* labels given to show 2 in the reverse of the order given to show 1.
Reverse(q) == [ j \in 1..Len(q) |-> q[Len(q) + 1 - j] ]
OrderRequests == { << >>, <<L(1), L(2)>>, <<L(2), LabelZ9>>, <<L(3), LabelA03>> }
OrderBookings ==
    { <<1, r>> : r \in OrderRequests } \cup { <<2, Reverse(r)>> : r \in OrderRequests }

NextOrder ==
    \E t \in Workers :
        \/ TwoShowsCall(t)
        \/ /\ InConcurrent(t, Len(TwoShows), MaxBookings)
           /\ \E b \in OrderBookings : BookSeatsCall(t, b[1], b[2])
        \/ AddMovieLockShared(t)
        \/ AddMovieCheck(t)
        \/ AddMovieIncr(t)
        \/ AddMovieLockUnique(t)
        \/ AddMovieInsert(t)
        \/ AddTheaterLockShared(t)
        \/ AddTheaterCheck(t)
        \/ AddTheaterIncr(t)
        \/ AddTheaterLockUnique(t)
        \/ AddTheaterInsert(t)
        \/ CreateShowLockUnique(t)
        \/ CreateShowBody(t)
        \/ BookSeatsLockShared(t)
        \/ BookSeatsFind(t)
        \/ BookSeatsLockShow(t)
        \/ BookSeatsCheckLabel(t)
        \/ BookSeatsCommitSeat(t)
        \/ BookSeatsCommitCount(t)
        \/ BookSeatsReturnTrue(t)
        \/ Return(t)

SpecOrder == Init /\ [][NextOrder]_vars

\* Threads booking the whole show of the fixture, with requests of
\* TOTAL_SEATS labels and more.
AllSeats == [ j \in 1..TOTAL_SEATS |-> L(j) ]
LongRequests ==
    { AllSeats, AllSeats \o <<L(1)>>, AllSeats \o <<L(TOTAL_SEATS), L(1)>> }

NextLong ==
    \E t \in Workers :
        \/ FixtureCall(t)
        \/ /\ InConcurrent(t, Len(Fixture), MaxBookings)
           /\ \E r \in LongRequests : BookSeatsCall(t, 1, r)
        \/ AddMovieLockShared(t)
        \/ AddMovieCheck(t)
        \/ AddMovieIncr(t)
        \/ AddMovieLockUnique(t)
        \/ AddMovieInsert(t)
        \/ AddTheaterLockShared(t)
        \/ AddTheaterCheck(t)
        \/ AddTheaterIncr(t)
        \/ AddTheaterLockUnique(t)
        \/ AddTheaterInsert(t)
        \/ CreateShowLockUnique(t)
        \/ CreateShowBody(t)
        \/ BookSeatsLockShared(t)
        \/ BookSeatsFind(t)
        \/ BookSeatsLockShow(t)
        \/ BookSeatsCheckLabel(t)
        \/ BookSeatsCommitSeat(t)
        \/ BookSeatsCommitCount(t)
        \/ BookSeatsReturnTrue(t)
        \/ Return(t)

SpecLong == Init /\ [][NextLong]_vars

\* One movie, two theaters and the show in the first made by the main
\* thread, then threads creating further shows while others read the show
\* map and the show indexes or book the first seat of a show.
OneShowTwoTheaters == SubSeq(TwoShows, 1, Len(TwoShows) - 1)

OneShowTwoTheatersCall(t) ==
    /\ InSetup(t, Len(OneShowTwoTheaters))
    /\ LET c == OneShowTwoTheaters[calls + 1] IN
       \/ c.op = "addMovie"   /\ AddMovieCall(t, c.name)
       \/ c.op = "addTheater" /\ AddTheaterCall(t, c.name)
       \/ c.op = "createShow" /\ CreateShowCall(t, c.movieId, c.theaterId)

NextIndex ==
    \E t \in Workers :
        \/ OneShowTwoTheatersCall(t)
        \/ /\ InConcurrent(t, Len(OneShowTwoTheaters), MaxQueries)
           /\ \/ \E m \in ArgIds, th \in ArgIds : CreateShowCall(t, m, th)
              \/ GetAllShowsCall(t)
              \/ \E m \in ArgIds : ListTheatersForMovieCall(t, m)
              \/ \E sid \in ArgIds : BookSeatsCall(t, sid, <<L(1)>>)
        \/ AddMovieLockShared(t)
        \/ AddMovieCheck(t)
        \/ AddMovieIncr(t)
        \/ AddMovieLockUnique(t)
        \/ AddMovieInsert(t)
        \/ AddTheaterLockShared(t)
        \/ AddTheaterCheck(t)
        \/ AddTheaterIncr(t)
        \/ AddTheaterLockUnique(t)
        \/ AddTheaterInsert(t)
        \/ CreateShowLockUnique(t)
        \/ CreateShowBody(t)
        \/ BookSeatsLockShared(t)
        \/ BookSeatsFind(t)
        \/ BookSeatsLockShow(t)
        \/ BookSeatsCheckLabel(t)
        \/ BookSeatsCommitSeat(t)
        \/ BookSeatsCommitCount(t)
        \/ BookSeatsReturnTrue(t)
        \/ GetMovieTitleLockShared(t)
        \/ GetMovieTitleRelockBlocks(t)
        \/ GetMovieTitleFind(t)
        \/ GetTheaterNameLockShared(t)
        \/ GetTheaterNameRelockBlocks(t)
        \/ GetTheaterNameFind(t)
        \/ GetAllShowsLockShared(t)
        \/ GetAllShowsNext(t)
        \/ GetAllShowsTheater(t)
        \/ GetAllShowsReadCount(t)
        \/ ListTheatersForMovieLockShared(t)
        \/ ListTheatersForMovieFind(t)
        \/ ListTheatersForMovieNext(t)
        \/ ListTheatersForMovieLine(t)
        \/ Return(t)

SpecIndex == Init /\ [][NextIndex]_vars

\* Threads querying the catalog while others extend it and book seats,
\* after the fixture.  "Cd" and "Qr" are a title and a name the fixture has
\* not used.
QueryTitles == { <<67, 100>> }
QueryNames  == { <<81, 114>> }

QueryCall(t) ==
    /\ InConcurrent(t, Len(Fixture), MaxQueries)
    /\ \/ GetAllShowsCall(t)
       \/ \E m \in ArgIds : ListTheatersForMovieCall(t, m)
       \/ \E m \in ArgIds : GetMovieTitleCall(t, m)
       \/ \E th \in ArgIds : GetTheaterNameCall(t, th)
       \/ \E title \in QueryTitles : AddMovieCall(t, title)
       \/ \E name \in QueryNames : AddTheaterCall(t, name)
       \/ \E m \in ArgIds, th \in ArgIds : CreateShowCall(t, m, th)
       \/ GetAvailableSeatsCall(t, 1)
       \/ BookSeatsCall(t, 1, <<L(1)>>)

NextQuery ==
    \E t \in Workers :
        \/ FixtureCall(t)
        \/ QueryCall(t)
        \/ AddMovieLockShared(t)
        \/ AddMovieCheck(t)
        \/ AddMovieIncr(t)
        \/ AddMovieLockUnique(t)
        \/ AddMovieInsert(t)
        \/ AddTheaterLockShared(t)
        \/ AddTheaterCheck(t)
        \/ AddTheaterIncr(t)
        \/ AddTheaterLockUnique(t)
        \/ AddTheaterInsert(t)
        \/ CreateShowLockUnique(t)
        \/ CreateShowBody(t)
        \/ GetAvailableSeatsLockShared(t)
        \/ GetAvailableSeatsFind(t)
        \/ GetAvailableSeatsLockShow(t)
        \/ GetAvailableSeatsRead(t)
        \/ BookSeatsLockShared(t)
        \/ BookSeatsFind(t)
        \/ BookSeatsLockShow(t)
        \/ BookSeatsCheckLabel(t)
        \/ BookSeatsCommitSeat(t)
        \/ BookSeatsCommitCount(t)
        \/ BookSeatsReturnTrue(t)
        \/ GetMovieTitleLockShared(t)
        \/ GetMovieTitleRelockBlocks(t)
        \/ GetMovieTitleFind(t)
        \/ GetTheaterNameLockShared(t)
        \/ GetTheaterNameRelockBlocks(t)
        \/ GetTheaterNameFind(t)
        \/ GetAllShowsLockShared(t)
        \/ GetAllShowsNext(t)
        \/ GetAllShowsTheater(t)
        \/ GetAllShowsReadCount(t)
        \/ ListTheatersForMovieLockShared(t)
        \/ ListTheatersForMovieFind(t)
        \/ ListTheatersForMovieNext(t)
        \/ ListTheatersForMovieLine(t)
        \/ Return(t)

SpecQuery == Init /\ [][NextQuery]_vars

\* ------------------------------------------------------- the codec alone
\* seatIndexFromLabel and seatLabelFromIndex are static and touch no state
\* of the service.  Here one thread is given either a label string or a
\* seat index, applies one function to it and then the other to the result.
\* The characters: 'A', 'a', '0', '1', '2', '9' and the two characters next
\* to the digits, '/' and ':'.
CodecChars == { SEAT_ROW, 97, ChZero, ChZero + 1, ChZero + 2, ChNine,
                ChZero - 1, ChNine + 1 }
CodecLabels == UNION { [1..n -> CodecChars] : n \in 0..MaxLabelLen }

InitCodec ==
    /\ movies = EmptyMap /\ theaters = EmptyMap /\ shows = EmptyMap
    /\ movieNameToId = EmptyMap /\ theaterNameToId = EmptyMap
    /\ showLookup = EmptyMap
    /\ activeMovies = {} /\ movieToTheaters = EmptyMap
    /\ movieCounter = 0 /\ theaterCounter = 0 /\ showCounter = 0
    /\ mtx = [writer |-> NoThread, readers |-> [t \in Threads |-> 0]]
    /\ calls = 0 /\ sold = EmptyMap /\ whole = EmptyMap
    /\ issued = [op \in CreateOps |-> EmptyMap]
    /\ \/ \E label \in CodecLabels :
            /\ frame = [t \in Threads |->
                          IF t = MainThread
                          THEN [Frame0 EXCEPT !.op = "codec", !.seatLabels = <<label>>]
                          ELSE Frame0]
            /\ pc = [t \in Threads |-> IF t = MainThread THEN "label" ELSE "idle"]
       \/ \E idx \in SeatIdx :
            /\ frame = [t \in Threads |->
                          IF t = MainThread
                          THEN [Frame0 EXCEPT !.op = "codec", !.i = idx]
                          ELSE Frame0]
            /\ pc = [t \in Threads |-> IF t = MainThread THEN "index" ELSE "idle"]

\* ret = seatIndexFromLabel(the given label); n = what num had grown to
DecodeGiven(t) ==
    /\ pc[t] = "label"
    /\ frame' = [frame EXCEPT ![t].ret = seatIndexFromLabel(frame[t].seatLabels[1]),
                                ![t].n = Accumulated(frame[t].seatLabels[1])]
    /\ pc' = [pc EXCEPT ![t] = "decoded"]
    /\ UNCHANGED << catalogVars, shows, mtx, calls, sold, whole, issued >>

\* available = { seatLabelFromIndex(ret) }, when the label was accepted
EncodeDecoded(t) ==
    /\ pc[t] = "decoded"
    /\ frame[t].ret >= 0
    /\ frame' = [frame EXCEPT ![t].available = <<seatLabelFromIndex(frame[t].ret)>>]
    /\ pc' = [pc EXCEPT ![t] = "reencoded"]
    /\ UNCHANGED << catalogVars, shows, mtx, calls, sold, whole, issued >>

\* name = seatLabelFromIndex(the given index)
EncodeGiven(t) ==
    /\ pc[t] = "index"
    /\ frame' = [frame EXCEPT ![t].name = seatLabelFromIndex(frame[t].i)]
    /\ pc' = [pc EXCEPT ![t] = "encoded"]
    /\ UNCHANGED << catalogVars, shows, mtx, calls, sold, whole, issued >>

\* id = seatIndexFromLabel(name)
DecodeEncoded(t) ==
    /\ pc[t] = "encoded"
    /\ frame' = [frame EXCEPT ![t].id = seatIndexFromLabel(frame[t].name)]
    /\ pc' = [pc EXCEPT ![t] = "roundtrip"]
    /\ UNCHANGED << catalogVars, shows, mtx, calls, sold, whole, issued >>

NextCodec ==
    \/ DecodeGiven(MainThread)
    \/ EncodeDecoded(MainThread)
    \/ EncodeGiven(MainThread)
    \/ DecodeEncoded(MainThread)

SpecCodec == InitCodec /\ [][NextCodec]_vars

\* ======================================================================
\* Properties
\* ======================================================================
Done(t, op) == pc[t] = "done" /\ frame[t].op = op
Range(q)    == { q[j] : j \in 1..Len(q) }

\* The labels of the grammar <row><1..TOTAL_SEATS>, and the seat each names.
GrammarLabels == { <<SEAT_ROW>> \o Decimal(v) : v \in 1..TOTAL_SEATS }
SeatOf(lbl)   == CHOOSE i \in SeatIdx : <<SEAT_ROW>> \o Decimal(i + 1) = lbl
FreeSeats(seats) == { i \in SeatIdx : ~seats[i] }

\* A thread is inside the critical section of bookSeats on show s.
BookingInside(s) ==
    \E t \in Threads : frame[t].op = "bookSeats" /\ shows[s].mtx = t

\* C1: whatever the interleaving of bookSeats calls on a show, no seat index
\* belongs to two calls that returned true.
C1_NoSeatSoldTwice ==
    \A s \in DOMAIN sold : \A i \in SeatIdx : sold[s][i] <= 1

\* Two calls asked for the same seat; one got it and the other was refused.
C1_Witness ==
    \E t, u \in Threads :
        /\ t # u /\ Done(t, "bookSeats") /\ Done(u, "bookSeats")
        /\ frame[t].show # 0 /\ frame[u].show = frame[t].show
        /\ frame[t].ok /\ ~frame[u].ok
        /\ \E i \in frame[u].seen :
              i \in Range(frame[t].tmpIndices) /\ sold[frame[t].show][i] = 1

\* C2: when T >= 1 threads have each called bookSeats on the show with the
\* same single free label of the grammar and all have returned, exactly one
\* returned true, T - 1 returned false and availableCount = TOTAL_SEATS - 1.
Racers == { t \in Threads : frame[t].op = "bookSeats" }
C2_SameSeatOneWinner ==
    (Racers # {} /\ \A t \in Racers : pc[t] = "done")
    => /\ Cardinality({ t \in Racers : frame[t].ok }) = 1
       /\ Cardinality({ t \in Racers : ~frame[t].ok }) = Cardinality(Racers) - 1
       /\ shows[1].availableCount = TOTAL_SEATS - 1

C2_Witness ==
    /\ Cardinality(Racers) >= 3
    /\ \A t \in Racers : pc[t] = "done"
    /\ \E t \in Racers : frame[t].ok

\* C3: a bookSeats call that found its show and returned false (malformed
\* label, repeated seat index or occupied seat, wherever in the request)
\* left the seat vector and availableCount as they were when it took the
\* show lock.
C3_FailedBookingChangesNothing ==
    \A t \in Threads :
        (Done(t, "bookSeats") /\ frame[t].show # 0 /\ ~frame[t].ok)
        => frame[t].exit = frame[t].entry

\* The offending label came after a valid free one.
C3_Witness ==
    \E t \in Threads :
        /\ Done(t, "bookSeats") /\ frame[t].show # 0 /\ ~frame[t].ok
        /\ frame[t].n >= 1
        /\ frame[t].entry.availableCount < TOTAL_SEATS

\* C4: a bookSeats call on an existing show with K distinct labels of the
\* grammar, all free when it took the show lock, returned true, marked
\* exactly those K seats and lowered availableCount by K; and no seat sold
\* by a call that had returned is among the labels a getAvailableSeats
\* call read afterwards.
GoodRequest(f) ==
    /\ f.show # 0
    /\ \A k \in 1..Len(f.seatLabels) :
          /\ f.seatLabels[k] \in GrammarLabels
          /\ ~f.entry.seats[SeatOf(f.seatLabels[k])]
          /\ \A j \in 1..Len(f.seatLabels) :
                j # k => f.seatLabels[j] # f.seatLabels[k]

C5_CountMatchesSeats ==
    \A s \in DOMAIN shows :
        ~BookingInside(s)
        => shows[s].availableCount = Cardinality(FreeSeats(shows[s].seats))

C5_Witness ==
    \E s \in DOMAIN shows :
        /\ ~BookingInside(s)
        /\ shows[s].availableCount = TOTAL_SEATS - 3

\* C6: every result of getAvailableSeats is the free-seat list of the show
\* as it was before or after whole bookings, never of a half applied one.
C6_AvailableIsWholeState ==
    \A u \in Threads :
        (Done(u, "getAvailableSeats") /\ frame[u].show # 0 /\ ~frame[u].threw)
        => \E v \in whole[frame[u].show] : frame[u].available = AvailableFrom(v, 0)

\* The call resolved its show while a booking was half applied.
C6_Witness ==
    \E u \in Threads :
        /\ Done(u, "getAvailableSeats") /\ frame[u].show # 0 /\ ~frame[u].threw
        /\ frame[u].raced

AddOps == { "addMovie", "addTheater" }
\* The titles or names in the catalog of the kind an add call is about.
NamesOf(op) ==
    IF op = "addMovie" THEN [m \in DOMAIN movies |-> movies[m].title]
    ELSE [m \in DOMAIN theaters |-> theaters[m].name]

\* C7: the catalog never holds two movies, or two theaters, whose names
\* differ at most by letter case, whatever the interleaving of the calls.
C7_NoCaseInsensitiveDuplicates ==
    \A op \in AddOps :
        \A a, b \in DOMAIN NamesOf(op) :
            a # b => ~SameUpToCase(NamesOf(op)[a], NamesOf(op)[b])

\* C8 as claimed: an addMovie or addTheater call whose name differs at most
\* by letter case from one already added returns the id of that entity.
C8_DuplicateReturnsFirstId ==
    \A t \in Threads :
        (pc[t] = "done" /\ frame[t].op \in AddOps /\ frame[t].known)
        => frame[t].ret \in frame[t].knownIds

\* C8 as the code has it: such a call never gets past its duplicate check,
\* so it adds nothing and takes no id; it returns -1, and the id it prints
\* on std::cerr is that of an entity whose name equals its own up to case.
C8_DuplicateReturnsMinusOne ==
    \A t \in Threads :
        (frame[t].op \in AddOps /\ frame[t].known)
        => /\ pc[t] \in { "am_shared", "am_check", "at_shared", "at_check", "done" }
           /\ pc[t] = "done"
              => /\ frame[t].ret = -1
                 /\ frame[t].diag \in DOMAIN NamesOf(frame[t].op)
                 /\ SameUpToCase(NamesOf(frame[t].op)[frame[t].diag], frame[t].name)

\* The name differs from the stored one, by letter case only.
C8_Witness ==
    \E t \in Threads :
        /\ pc[t] = "done" /\ frame[t].op \in AddOps /\ frame[t].known
        /\ frame[t].ret = -1
        /\ frame[t].diag \in frame[t].knownIds
        /\ NamesOf(frame[t].op)[frame[t].diag] # frame[t].name

\* C9: at most one show exists for any (movieId, theaterId) pair, and a
\* createShow for a pair that has a show returns -1 and adds no show.
PairTaken(f) == <<f.movieId, f.theaterId>> \in DOMAIN f.entry.showLookup
C9_OneShowPerPair ==
    /\ \A a, b \in DOMAIN shows :
          a # b => \/ shows[a].movieId # shows[b].movieId
                   \/ shows[a].theaterId # shows[b].theaterId
    /\ \A t \in Threads :
          (Done(t, "createShow") /\ (frame[t].known \/ PairTaken(frame[t])))
          => /\ frame[t].ret = -1
             /\ frame[t].exit = frame[t].entry

\* Two calls for the same pair were under way together: the pair had no
\* show when the second was made, and had one when it took the lock.
C9_Witness ==
    \E t, u \in Threads :
        /\ t # u /\ Done(t, "createShow") /\ Done(u, "createShow")
        /\ frame[t].movieId = frame[u].movieId
        /\ frame[t].theaterId = frame[u].theaterId
        /\ frame[t].ret >= 1
        /\ ~frame[u].known /\ PairTaken(frame[u]) /\ frame[u].ret = -1

\* C10: createShow with a movieId or a theaterId that is not in the catalog
\* returns -1 and leaves the show map, the three show indexes and the show
\* id counter unchanged.
UnknownArg(f) == f.movieId \notin f.entry.movies \/ f.theaterId \notin f.entry.theaters
C10_UnknownIdRejected ==
    \A t \in Threads :
        (Done(t, "createShow") /\ UnknownArg(frame[t]))
        => /\ frame[t].ret = -1
           /\ frame[t].exit = frame[t].entry

\* The movie is unknown while the theater is known and shows exist.
C10_Witness ==
    \E t \in Threads :
        /\ Done(t, "createShow")
        /\ frame[t].movieId \notin frame[t].entry.movies
        /\ frame[t].theaterId \in frame[t].entry.theaters
        /\ frame[t].entry.shows # {}
        /\ frame[t].ret = -1

\* C11: getAvailableSeats on an existing show returns the labels of the
\* seats that are unoccupied when it reads them, each once, in ascending
\* seat order; on a show nobody has booked these are the TOTAL_SEATS labels
\* A1..A20.
C11_AvailableListsFreeSeats ==
    \A u \in Threads :
        (Done(u, "getAvailableSeats") /\ frame[u].show # 0)
        => LET a    == frame[u].available
               was  == FreeSeats(frame[u].entry.seats)
           IN /\ ~frame[u].threw
              /\ Len(a) = Cardinality(was)
              /\ \A k \in 1..Len(a) :
                    /\ a[k] \in GrammarLabels
                    /\ SeatOf(a[k]) \in was
                    /\ k < Len(a) => SeatOf(a[k]) < SeatOf(a[k + 1])
              /\ was = SeatIdx
                    => a = [k \in 1..TOTAL_SEATS |-> <<SEAT_ROW>> \o Decimal(k)]

\* One call read the show before any booking and one after seats 1 and 2
\* were taken.
C11_Witness ==
    \E u, v \in Threads :
        /\ Done(u, "getAvailableSeats") /\ Done(v, "getAvailableSeats")
        /\ Len(frame[u].available) = TOTAL_SEATS
        /\ Len(frame[v].available) = TOTAL_SEATS - 2
        /\ frame[v].available[1] = L(3)

\* C12: a bookSeats or getAvailableSeats call whose show id is not in the
\* catalog never goes past its lookup: no step of it changes or locks a
\* show, bookSeats returns false, and getAvailableSeats ends in an exception
\* (no vector, no boolean).
SeatOps == { "bookSeats", "getAvailableSeats" }
C12_UnknownShowTouchesNothing ==
    [][ \A t \in Threads :
          (frame[t].op \in SeatOps /\ frame[t].showId \notin DOMAIN shows
           /\ pc'[t] # pc[t])
          => /\ shows' = shows
             /\ pc'[t] \in { "bs_find", "ga_find", "done", "idle" }
             /\ pc'[t] = "done"
                  => /\ frame'[t].show = 0
                     /\ frame'[t].op = "bookSeats"
                          => ~frame'[t].ok /\ ~frame'[t].threw
                     /\ frame'[t].op = "getAvailableSeats"
                          => frame'[t].threw /\ frame'[t].available = << >>
      ]_vars

\* Both calls were made on an unknown show while the known one had seats sold.
C12_Witness ==
    \E t, u \in Threads :
        /\ Done(t, "bookSeats") /\ frame[t].showId \notin DOMAIN shows
        /\ ~frame[t].ok
        /\ Done(u, "getAvailableSeats") /\ frame[u].showId \notin DOMAIN shows
        /\ frame[u].threw
        /\ \E s \in DOMAIN shows : shows[s].availableCount < TOTAL_SEATS

\* C13: for every seat index i in 0..TOTAL_SEATS-1, decoding the label that
\* seatLabelFromIndex makes of i gives i back.
C13_IndexRoundTrip ==
    \A t \in Threads :
        pc[t] = "roundtrip" => frame[t].id = frame[t].i

\* The last seat, whose label has two digits, went round.
C13_Witness ==
    \E t \in Threads :
        /\ pc[t] = "roundtrip"
        /\ frame[t].i = TOTAL_SEATS - 1
        /\ Len(frame[t].name) = 3
        /\ frame[t].id = TOTAL_SEATS - 1

\* The classes of labels outside the grammar, stated on the characters, and
\* the number a string of digits writes.
WrongRow(label)     == Len(label) = 0 \/ label[1] # SEAT_ROW
EmptySuffix(label)  == Len(label) <= 1
NonDigitIn(label)   == \E k \in 2..Len(label) : label[k] \notin ChZero..ChNine
RECURSIVE NumberUpTo(_, _)
NumberUpTo(label, k) ==
    IF k < 2 THEN 0 ELSE NumberUpTo(label, k - 1) * 10 + (label[k] - ChZero)
NumberOf(label) == NumberUpTo(label, Len(label))
OutsideGrammar(label) ==
    \/ WrongRow(label) \/ EmptySuffix(label) \/ NonDigitIn(label)
    \/ NumberOf(label) = 0 \/ NumberOf(label) > TOTAL_SEATS

\* C14: seatIndexFromLabel returns -1 for a label with a wrong row letter,
\* an empty suffix, a non-digit in the suffix, the number 0 or a number
\* above TOTAL_SEATS, and the number minus one for every other label.
C14_DecodeFollowsGrammar ==
    \A t \in Threads :
        pc[t] = "decoded"
        => LET label == frame[t].seatLabels[1] IN
           IF OutsideGrammar(label) THEN frame[t].ret = -1
           ELSE frame[t].ret = NumberOf(label) - 1

\* A number above TOTAL_SEATS whose first two digits are not: the loop
\* reads to the last digit ("A109", "A0021").
C14_Witness ==
    \E t \in Threads :
        /\ pc[t] = "decoded"
        /\ LET label == frame[t].seatLabels[1] IN
           /\ Len(label) = MaxLabelLen
           /\ ~WrongRow(label) /\ ~NonDigitIn(label)
           /\ NumberUpTo(label, Len(label) - 1) <= TOTAL_SEATS
           /\ NumberOf(label) > TOTAL_SEATS
        /\ frame[t].ret = -1

\* C15: every label seatIndexFromLabel accepts is the label
\* seatLabelFromIndex makes of the index returned, so that no two label
\* strings decode to the same seat.
C15_AcceptedLabelIsCanonical ==
    \A t \in Threads :
        pc[t] = "reencoded" => frame[t].available = frame[t].seatLabels

\* C16: whatever the interleaving of the creation calls, no id is returned
\* by two successful addMovie calls, nor by two successful addTheater
\* calls, nor by two successful createShow calls.
C16_NoIdIssuedTwice ==
    \A op \in CreateOps : \A id \in DOMAIN issued[op] : issued[op][id] <= 1

\* Two addMovie calls raced past the duplicate check and both succeeded.
C16_Witness ==
    \E t, u \in Threads :
        /\ t # u /\ Done(t, "addMovie") /\ Done(u, "addMovie")
        /\ ~frame[t].known /\ ~frame[u].known
        /\ frame[t].ret >= 1 /\ frame[u].ret >= 1
        /\ DOMAIN issued["addMovie"] = { frame[t].ret, frame[u].ret }
        /\ frame[t].ret # frame[u].ret
        /\ DOMAIN issued["addTheater"] # {}

\* The ids in use, the counter and the entities of a namespace.
IdsInUse(op) ==
    IF op = "addMovie" THEN DOMAIN movies
    ELSE IF op = "addTheater" THEN DOMAIN theaters ELSE DOMAIN shows
CounterOf(op) ==
    IF op = "addMovie" THEN movieCounter
    ELSE IF op = "addTheater" THEN theaterCounter ELSE showCounter
NoCreationInProgress == \A t \in Threads : pc[t] \in { "idle", "done" }

\* C17: movie, theater and show ids come from three counters that start at
\* 1; a successful creation gets the next integer of its namespace and a
\* rejected one draws none: whenever no creation call is in progress, the
\* ids in use in a namespace are 1..n for its n entities, they are the ids
\* the successful calls returned, and n is what the counter has reached.
C17_IdsAreOneToN ==
    NoCreationInProgress
    => \A op \in CreateOps :
          /\ IdsInUse(op) = 1..Cardinality(IdsInUse(op))
          /\ IdsInUse(op) = DOMAIN issued[op]
          /\ CounterOf(op) = Cardinality(IdsInUse(op))

\* All three namespaces have reached id 1 and a creation was rejected.
C17_Witness ==
    /\ NoCreationInProgress
    /\ \A op \in CreateOps : IdsInUse(op) = {1}
    /\ \E t \in Threads : Done(t, "createShow") /\ frame[t].ret = -1

\* A call is under way; and the lock operation it is at cannot complete.
InProgress(t) == pc[t] \notin { "idle", "done" }
SharedStages  == { "am_shared", "at_shared", "ga_shared", "bs_shared",
                   "gm_shared", "gt_shared", "gs_shared", "lt_shared" }
Blocked(t) ==
    \/ pc[t] \in { "am_unique", "at_unique", "cs_unique" } /\ ~CanLockUnique(t)
    \/ pc[t] \in SharedStages /\ ~CanLockShared(t)
    \/ pc[t] \in { "ga_lock", "bs_lock" } /\ ~CanLockShow(frame[t].show)
    \/ pc[t] \in { "gm_blocked", "gt_blocked" }

\* C18: whatever public operations run together, getAllShows and
\* listTheatersForMovie beside addMovie, addTheater and createShow among
\* them, the service is never in a deadlock on the catalog lock or on a
\* show lock: of the calls under way, at least one is not waiting for a lock.
C18_NoDeadlock ==
    (\E t \in Threads : InProgress(t))
    => \E t \in Threads : InProgress(t) /\ ~Blocked(t)

\* C19: a seat that is occupied is occupied in every later state, and a
\* show's availableCount never increases: no step of any operation turns a
\* seat from occupied to free or raises the count (and no show goes away).
C19_SeatsStayOccupied ==
    [][ \A s \in DOMAIN shows :
          /\ s \in DOMAIN shows'
          /\ \A i \in SeatIdx : shows[s].seats[i] => shows'[s].seats[i]
          /\ shows'[s].availableCount <= shows[s].availableCount
      ]_vars

\* A booking asked for an occupied seat and was refused; the seat it asked
\* for is still occupied and another seat has been sold since.
C19_Witness ==
    \E t \in Threads :
        /\ Done(t, "bookSeats") /\ frame[t].show # 0 /\ ~frame[t].ok
        /\ \E i \in frame[t].seen :
              /\ frame[t].entry.seats[i]
              /\ shows[frame[t].show].seats[i]
        /\ shows[frame[t].show].availableCount < frame[t].entry.availableCount

\* C20: when T <= TOTAL_SEATS threads have each called bookSeats on the
\* freshly created show with a label of the grammar that no other thread
\* asks for, and all have returned, all T returned true and availableCount
\* is TOTAL_SEATS - T.
C20_DistinctSeatsAllSucceed ==
    (Racers # {} /\ \A t \in Racers : pc[t] = "done")
    => /\ \A t \in Racers : frame[t].ok
       /\ shows[1].availableCount = TOTAL_SEATS - Cardinality(Racers)
       /\ FreeSeats(shows[1].seats) =
             SeatIdx \ { SeatOf(frame[t].seatLabels[1]) : t \in Racers }

\* Every thread has booked its seat, one of them the last seat of the row.
C20_Witness ==
    /\ Racers = Threads
    /\ \A t \in Racers : pc[t] = "done" /\ frame[t].ok
    /\ \A t, u \in Racers : t # u => frame[t].seatLabels # frame[u].seatLabels
    /\ \E t \in Racers : frame[t].seatLabels = <<L(TOTAL_SEATS)>>

\* C21: when the concurrent single-seat bookSeats calls on the show, the
\* seats of several callers being the same, have all returned, the number
\* of labels getAvailableSeats returns is TOTAL_SEATS minus the number of
\* calls that returned true.
C21_RemainingIsTotalMinusSuccesses ==
    \A u \in Threads :
        Done(u, "getAvailableSeats")
        => /\ ~frame[u].threw
           /\ Len(frame[u].available) =
                 TOTAL_SEATS - Cardinality({ t \in Racers : frame[t].ok })

\* More callers than seats asked for: both seats went, one caller was refused.
C21_Witness ==
    \E u \in Threads :
        /\ Done(u, "getAvailableSeats")
        /\ Cardinality(Racers) > Cardinality(TallyLabels)
        /\ Cardinality({ t \in Racers : frame[t].ok }) = Cardinality(TallyLabels)
        /\ Len(frame[u].available) = TOTAL_SEATS - Cardinality(TallyLabels)

\* The show whose seats or availableCount the next step of thread t reads
\* or writes (0: none).
ShowTouchedBy(t) ==
    IF pc[t] \in { "ga_read", "bs_loop", "bs_commit", "bs_count" } THEN frame[t].show
    ELSE IF pc[t] = "gs_count" THEN frame[t].cur
    ELSE 0

\* C22: the seat vector and the availableCount of a show are written only
\* by bookSeats holding the show's lock, and every operation that reads
\* them (getAvailableSeats, bookSeats, getAllShows for its availableSeats
\* figure) holds that show's lock when it does.
C22_ShowStateOnlyUnderShowLock ==
    [][ /\ \A t \in Threads :
             ShowTouchedBy(t) # 0 => shows[ShowTouchedBy(t)].mtx = t
        /\ \A s \in DOMAIN shows :
             (shows'[s].seats # shows[s].seats
              \/ shows'[s].availableCount # shows[s].availableCount)
             => \E t \in Threads : frame[t].op = "bookSeats" /\ shows[s].mtx = t
      ]_vars

HoldsCatalog(t)  == mtx.writer = t \/ mtx.readers[t] > 0
HoldsShowLock(t) == \E s \in DOMAIN shows : shows[s].mtx = t
UniqueStages     == { "am_unique", "at_unique", "cs_unique" }

\* C23: no thread holds the catalog lock and a show's lock together:
\* bookSeats and getAvailableSeats have released the shared catalog lock
\* when they take the show's lock, and no thread that holds a show lock is
\* at an acquisition of the catalog lock.
C23_NeverBothLocks ==
    \A t \in Threads :
        HoldsShowLock(t)
        => /\ ~HoldsCatalog(t)
           /\ pc[t] \notin SharedStages \cup UniqueStages

\* One thread is inside a booking under the show lock while another holds
\* the catalog lock exclusively.
C23_Witness ==
    \E t, u \in Threads :
        /\ t # u
        /\ frame[t].op = "bookSeats" /\ HoldsShowLock(t) /\ pc[t] = "bs_count"
        /\ mtx.writer = u

\* C24: a bookSeats or getAvailableSeats call that is at the lock of its
\* show can take it whenever no thread holds the lock of that show,
\* whichever locks of other shows are held, and a thread inside a show's
\* critical section waits for nothing: calls on different shows do not
\* block one another.
C24_OtherShowsDoNotBlock ==
    \A t \in Threads :
        /\ (pc[t] = "bs_lock" /\ shows[frame[t].show].mtx = NoThread)
              => ENABLED BookSeatsLockShow(t)
        /\ (pc[t] = "ga_lock" /\ shows[frame[t].show].mtx = NoThread)
              => ENABLED GetAvailableSeatsLockShow(t)
        /\ HoldsShowLock(t) => ~Blocked(t)

\* Two threads are inside the critical sections of two different shows.
C24_Witness ==
    \E t, u \in Threads : \E s1, s2 \in DOMAIN shows :
        /\ t # u /\ s1 # s2
        /\ shows[s1].mtx = t /\ shows[s2].mtx = u
        /\ pc[t] = "bs_count" /\ pc[u] \in { "bs_loop", "ga_read" }

\* C25: in every state in which a thread holds the catalog lock in shared
\* mode, the show indexes agree with the show map: showLookup maps (m, th)
\* to id exactly when show id has movie m and theater th, activeMovies is
\* the set of the movies that have a show, and movieToTheaters[m] is the
\* set of the theaters that have a show of m.
C25_ShowIndexesAgree ==
    (\E t \in Threads : mtx.readers[t] > 0)
    => /\ \A key \in DOMAIN showLookup :
             /\ showLookup[key] \in DOMAIN shows
             /\ shows[showLookup[key]].movieId = key[1]
             /\ shows[showLookup[key]].theaterId = key[2]
       /\ \A id \in DOMAIN shows :
             /\ <<shows[id].movieId, shows[id].theaterId>> \in DOMAIN showLookup
             /\ showLookup[<<shows[id].movieId, shows[id].theaterId>>] = id
       /\ activeMovies = { shows[id].movieId : id \in DOMAIN shows }
       /\ DOMAIN movieToTheaters = activeMovies
       /\ \A m \in DOMAIN movieToTheaters :
             movieToTheaters[m] =
                 { shows[id].theaterId : id \in { x \in DOMAIN shows : shows[x].movieId = m } }

\* A listing that started beside the creation of the second show of the
\* movie holds the shared lock and finds both theaters.
C25_Witness ==
    \E t \in Threads :
        /\ frame[t].op = "listTheatersForMovie" /\ mtx.readers[t] > 0
        /\ Cardinality(DOMAIN shows) = 2
        /\ frame[t].todo \cup { frame[t].cur } = { 1, 2 }
        /\ \E u \in Threads : Done(u, "createShow") /\ frame[u].ret = 2

\* The catalog maps and indexes; of the show map, which shows exist and the
\* movie and theater of each (the seats belong to the show's own lock).
CatalogMaps ==
    << movies, theaters, movieNameToId, theaterNameToId,
       [ s \in DOMAIN shows |-> << shows[s].movieId, shows[s].theaterId >> ],
       showLookup, activeMovies, movieToTheaters >>

\* The stages at which a thread writes the catalog maps, and those at which
\* it reads them.
CatalogWriteStages == { "am_insert", "at_insert", "cs_body" }
CatalogReadStages  == { "am_check", "at_check", "cs_body", "ga_find", "bs_find",
                        "gm_find", "gt_find", "gs_loop", "gs_count",
                        "lt_find", "lt_loop", "lt_line" }

\* C26: every change of the catalog maps and indexes is made by a thread
\* that holds the catalog lock exclusively while no thread holds it in
\* shared mode, and every thread at a read of them holds the catalog lock.
C26_CatalogOnlyUnderCatalogLock ==
    [][ /\ CatalogMaps' # CatalogMaps
           => \E t \in Threads :
                 /\ mtx.writer = t
                 /\ pc[t] \in CatalogWriteStages /\ pc'[t] # pc[t]
                 /\ \A u \in Threads : mtx.readers[u] = 0
        /\ \A t \in Threads : pc[t] \in CatalogReadStages => HoldsCatalog(t)
      ]_vars

\* A second movie was inserted by a call that ran beside a getAllShows
\* call which is now reading under the shared lock.
C26_Witness ==
    \E t, u \in Threads :
        /\ t # u
        /\ Done(t, "addMovie") /\ frame[t].ret = 2 /\ 2 \in DOMAIN movies
        /\ frame[u].op = "getAllShows" /\ pc[u] = "gs_loop" /\ mtx.readers[u] > 0

\* The three-step check of a request against the seats the call found when
\* it took the show lock: every label decodes, no seat index is asked for
\* twice, no seat asked for is occupied.
AllDecode(f)   == \A k \in 1..Len(f.seatLabels) : ~OutsideGrammar(f.seatLabels[k])
NoRepeat(f)    ==
    \A j, k \in 1..Len(f.seatLabels) :
        j # k => NumberOf(f.seatLabels[j]) # NumberOf(f.seatLabels[k])
NoneOccupied(f) ==
    \A k \in 1..Len(f.seatLabels) : ~f.entry.seats[NumberOf(f.seatLabels[k]) - 1]
Acceptable(f)  == AllDecode(f) /\ NoRepeat(f) /\ NoneOccupied(f)
Occurrences(q, x) == Cardinality({ j \in 1..Len(q) : q[j] = x })
Permuted(a, b) ==
    /\ Len(a) = Len(b)
    /\ \A x \in Range(a) \cup Range(b) : Occurrences(a, x) = Occurrences(b, x)

\* C27: bookSeats on an existing show returns true exactly when every label
\* decodes, no seat index occurs twice and no requested seat was occupied
\* when the call took the show lock; two calls given the same labels in
\* different orders on equal seat states return the same result and leave
\* equal states; the empty request returns true and changes nothing.
C27_ResultIsThreeStepCheck ==
    /\ \A t \in Threads :
          (Done(t, "bookSeats") /\ frame[t].show # 0)
          => /\ frame[t].ok <=> Acceptable(frame[t])
             /\ frame[t].seatLabels = << >>
                => frame[t].ok /\ frame[t].exit = frame[t].entry
    /\ \A t, u \in Threads :
          ( /\ Done(t, "bookSeats") /\ frame[t].show # 0
            /\ Done(u, "bookSeats") /\ frame[u].show # 0
            /\ Permuted(frame[t].seatLabels, frame[u].seatLabels)
            /\ frame[t].entry = frame[u].entry )
          => /\ frame[t].ok = frame[u].ok
             /\ frame[t].exit = frame[u].exit

\* Two calls were given a free seat and a label of the wrong row in the two
\* orders, on shows in the same state: one stopped at its first label, the
\* other had staged a seat.
C27_Witness ==
    \E t, u \in Threads :
        /\ Done(t, "bookSeats") /\ frame[t].show # 0
        /\ Done(u, "bookSeats") /\ frame[u].show # 0
        /\ Permuted(frame[t].seatLabels, frame[u].seatLabels)
        /\ frame[t].seatLabels # frame[u].seatLabels
        /\ frame[t].entry = frame[u].entry
        /\ frame[t].n = 1 /\ frame[u].n = 0
        /\ ~frame[t].ok /\ ~frame[u].ok

\* The seats and the count of show s are the same after the step.
SeatsKept(s) ==
    /\ shows'[s].seats = shows[s].seats
    /\ shows'[s].availableCount = shows[s].availableCount

\* C28: the seat vector and the availableCount of a show change only in
\* the commit of a bookSeats call on that show whose request passed the
\* whole validation; the steps of a bookSeats call leave every other show,
\* the catalog maps and indexes and the id counters as they were, and the
\* steps of every other operation leave the seats and the count of every
\* existing show as they were.
C28_SeatsChangeOnlyByOwnBooking ==
    [][ \A t \in Threads :
          (InProgress(t) /\ pc'[t] # pc[t])
          => IF frame[t].op = "bookSeats"
             THEN /\ catalogVars' = catalogVars
                  /\ DOMAIN shows' = DOMAIN shows
                  /\ \A s \in DOMAIN shows :
                        \/ SeatsKept(s)
                        \/ /\ s = frame[t].showId
                           /\ pc[t] \in { "bs_commit", "bs_count" }
                           /\ frame[t].n = Len(frame[t].seatLabels)
                  /\ \A s \in DOMAIN shows :
                        s # frame[t].showId => shows'[s] = shows[s]
             ELSE \A s \in DOMAIN shows : SeatsKept(s)
      ]_vars

\* A seat of show 1 was sold and show 2 was created beside the booking;
\* show 2 has all its seats and show 1 has lost exactly that one.
C28_Witness ==
    \E t, u \in Threads :
        /\ Done(t, "bookSeats") /\ frame[t].show = 1 /\ frame[t].ok
        /\ Done(u, "createShow") /\ frame[u].ret = 2
        /\ shows[1].availableCount = TOTAL_SEATS - 1
        /\ shows[2].availableCount = TOTAL_SEATS

\* C29: no thread is at an acquisition of the catalog lock, shared or
\* exclusive, while it holds that lock, and no thread holds it more than
\* once: getAllShows and listTheatersForMovie included, every operation has
\* the catalog lock at most once at a time.
C29_CatalogLockNotNested ==
    \A t \in Threads :
        /\ pc[t] \in SharedStages \cup UniqueStages => ~HoldsCatalog(t)
        /\ mtx.readers[t] <= 1
        /\ pc[t] \in { "gm_blocked", "gt_blocked" } => ~HoldsCatalog(t)

\* C30: inside bookSeats the number of seat indices staged for the commit
\* never exceeds TOTAL_SEATS, whatever the length of the request, and every
\* index staged or marked as seen is a seat index: tmpIndices and the seen
\* bitset are never indexed outside 0..TOTAL_SEATS-1.
C30_StagingStaysInBounds ==
    \A t \in Threads :
        frame[t].op = "bookSeats"
        => /\ frame[t].n <= TOTAL_SEATS
           /\ Len(frame[t].tmpIndices) = frame[t].n
           /\ Range(frame[t].tmpIndices) \subseteq SeatIdx
           /\ frame[t].seen \subseteq SeatIdx
           /\ frame[t].i <= frame[t].n

\* A request of more than TOTAL_SEATS labels was refused at its last
\* label, with all TOTAL_SEATS seats staged.
C30_Witness ==
    \E t \in Threads :
        /\ Done(t, "bookSeats") /\ frame[t].show # 0
        /\ Len(frame[t].seatLabels) > TOTAL_SEATS
        /\ frame[t].n = TOTAL_SEATS
        /\ ~frame[t].ok

\* Position k of the label is the first digit that takes the number written
\* so far above TOTAL_SEATS, all characters before it being digits.
FirstAbove(label, k) ==
    /\ \A j \in 2..k : label[j] \in ChZero..ChNine
    /\ NumberUpTo(label, k) > TOTAL_SEATS
    /\ \A j \in 2..(k - 1) : NumberUpTo(label, j) <= TOTAL_SEATS

\* C31: in seatIndexFromLabel the accumulated number never exceeds
\* 10 * TOTAL_SEATS + 9, whatever the length of the label: when a digit
\* takes it above TOTAL_SEATS the loop stops there, with the number written
\* by the digits up to that one, and the digits after it are not read.
C31_AccumulatorBounded ==
    \A t \in Threads :
        pc[t] = "decoded"
        => LET label == frame[t].seatLabels[1] IN
           /\ frame[t].n >= 0
           /\ frame[t].n <= 10 * TOTAL_SEATS + 9
           /\ \A k \in 2..Len(label) :
                 (~WrongRow(label) /\ FirstAbove(label, k))
                 => frame[t].n = NumberUpTo(label, k)

\* "A209..": the number reached 10 * TOTAL_SEATS + 9 at the third digit.
C31_Witness ==
    \E t \in Threads :
        /\ pc[t] = "decoded"
        /\ Len(frame[t].seatLabels[1]) >= 4
        /\ ~WrongRow(frame[t].seatLabels[1])
        /\ FirstAbove(frame[t].seatLabels[1], 4)
        /\ frame[t].n = 10 * TOTAL_SEATS + 9
        /\ frame[t].ret = -1

====
